---- MODULE Spec2Model ----
(***************************************************************************)
(* Provider execution and stream normalisation of automaker's server:      *)
(* ClaudeProvider.executeQuery and CodexProvider.executeQuery, the Codex   *)
(* JSONL event conversion, and the subprocess supervisor the Codex adapter *)
(* drives (spawnJSONLProcess, whose implementation is apps/server/src/lib/ *)
(* subprocess-manager.ts; it is modelled from its documented contract).    *)
(***************************************************************************)
EXTENDS Integers, Sequences, FiniteSets, TLC

(***************************************************************************)
(* Bounds of the model.                                                    *)
(***************************************************************************)
\* Number of stdout lines one subprocess writes at most.
MaxLines == 3
\* Number of messages the Claude SDK stream delivers at most.
MaxSdkMessages == 2
\* Milliseconds of modelled time one Tick of the stall timer advances.
TickMs == 30000

(***************************************************************************)
(* JavaScript values.  A string is a sequence of tokens, so that template  *)
(* literals are concatenations; undefined is a token sequence no string    *)
(* of the program equals.  Discriminating type tags are plain strings.     *)
(***************************************************************************)
Undefined == <<"#undefined">>
NoType == "undefined"
Str(t) == <<t>>
\* JavaScript truthiness of a string-or-undefined value.
Truthy(v) == v # Undefined /\ v # <<>>
\* a || b on string-or-undefined values.
Or(a, b) == IF Truthy(a) THEN a ELSE b

\* The object { command } passed as a tool_use input; {} has no command.
EmptyInput == [command |-> Undefined]

\* An element of item.items (a todo) or of item.changes (a changed file).
Entry(text, status, path) == [text |-> text, status |-> status, path |-> path]
\* An absent (undefined) array-valued field; any other sequence is an array.
NoArray == <<Entry(<<"#undefined">>, <<"#undefined">>, <<"#undefined">>)>>

\* An item of a Codex event; NoItem stands for an absent (undefined) item.
NoItem ==
  [type |-> NoType, item_type |-> NoType, id |-> Undefined,
   command |-> Undefined, aggregated_output |-> Undefined,
   output |-> Undefined, result |-> Undefined, text |-> Undefined,
   content |-> Undefined, tool |-> Undefined, tool_use_id |-> Undefined,
   message |-> Undefined, input |-> EmptyInput, items |-> NoArray,
   changes |-> NoArray]

\* interface CodexEvent { type; data?; item?; thread_id?; message? }
\* type "#malformed" stands for a stdout line that is not JSON.
CodexEvent(type, item, message) ==
  [type |-> type, data |-> NoItem, item |-> item, message |-> message]

CODEX_EVENT_TYPES ==
  [THREAD_STARTED |-> "thread.started", THREAD_COMPLETED |-> "thread.completed",
   ITEM_STARTED |-> "item.started", ITEM_COMPLETED |-> "item.completed",
   TURN_STARTED |-> "turn.started", ERROR |-> "error"]

(***************************************************************************)
(* ProviderMessage and ContentBlock.                                       *)
(***************************************************************************)
NoBlock ==
  [type |-> NoType, text |-> Undefined, thinking |-> Undefined,
   name |-> Undefined, input |-> EmptyInput, tool_use_id |-> Undefined,
   content |-> Undefined]

TextBlock(t) == [NoBlock EXCEPT !.type = "text", !.text = t]
ThinkingBlock(t) == [NoBlock EXCEPT !.type = "thinking", !.thinking = t]
\* The tool_use blocks the adapter builds set name and input only.
ToolUseBlock(name, input) ==
  [NoBlock EXCEPT !.type = "tool_use", !.name = name, !.input = input]
ToolResultBlock(id, content) ==
  [NoBlock EXCEPT !.type = "tool_result", !.tool_use_id = id,
                  !.content = content]

NoMessage ==
  [type |-> "null", content |-> <<>>, subtype |-> NoType,
   result |-> Undefined, error |-> Undefined]
\* convertToProviderFormat's null.
Null == NoMessage

AssistantMessage(block) ==
  [NoMessage EXCEPT !.type = "assistant", !.content = <<block>>]
ResultMessage ==
  [NoMessage EXCEPT !.type = "result", !.subtype = "success", !.result = <<>>]
ErrorMessage(text) == [NoMessage EXCEPT !.type = "error", !.error = text]

\* Array.prototype.join("\n") of a sequence of strings.
RECURSIVE JoinLines(_)
JoinLines(parts) ==
  IF parts = <<>> THEN <<>>
  ELSE IF Len(parts) = 1 THEN parts[1]
  ELSE parts[1] \o <<"\n">> \o JoinLines(Tail(parts))

\* todos.map((t, i) => `${i + 1}. ${t.text || t}`).join("\n")
TodoText(todos) ==
  JoinLines([i \in 1..Len(todos) |->
    <<ToString(i), ". ">> \o Or(todos[i].text, <<"[object Object]">>)])

\* todos.map((t, i) => `${i + 1}. [${status}] ${t.text || t}`).join("\n")
UpdatedTodoText(todos) ==
  JoinLines([i \in 1..Len(todos) |->
    <<ToString(i), ". [">>
      \o (IF todos[i].status = Str("completed") THEN <<"CHECK">> ELSE <<" ">>)
      \o <<"] ">> \o Or(todos[i].text, <<"[object Object]">>)])

\* changes.map((c) => `- Modified: ${c.path}`).join("\n")
ChangeText(changes) ==
  JoinLines([i \in 1..Len(changes) |-> <<"- Modified: ">> \o changes[i].path])

\* item.items || [] and item.changes || []
OrEmptyArray(a) == IF a = NoArray THEN <<>> ELSE a

(***************************************************************************)
(* CodexProvider.convertItemCompleted                                      *)
(***************************************************************************)
convertItemCompleted(item) ==
  IF item = NoItem THEN Null
  ELSE
    LET itemType == IF item.type # NoType THEN item.type ELSE item.item_type IN
    CASE itemType = "reasoning" ->
           AssistantMessage(ThinkingBlock(Or(item.text, Or(item.content, <<>>))))
      [] itemType \in {"agent_message", "message"} ->
           AssistantMessage(TextBlock(Or(item.content, Or(item.text, <<>>))))
      [] itemType = "command_execution" ->
           LET command == Or(item.command, <<>>)
               output == Or(item.aggregated_output, Or(item.output, <<>>))
           IN AssistantMessage(TextBlock(
                <<"FENCE", "bash", "\n">> \o command \o <<"\n", "FENCE", "\n\n">> \o output))
      [] itemType = "tool_use" ->
           AssistantMessage(ToolUseBlock(
             Or(item.tool, Or(item.command, Str("unknown"))), item.input))
      [] itemType = "tool_result" ->
           AssistantMessage(ToolResultBlock(
             item.tool_use_id,
             Or(item.output, item.result)))
      [] itemType = "todo_list" ->
           AssistantMessage(TextBlock(
             <<"BOLD(Todo List:)", "\n">> \o TodoText(OrEmptyArray(item.items))))
      [] itemType = "file_change" ->
           AssistantMessage(TextBlock(
             <<"BOLD(File Changes:)", "\n">> \o ChangeText(OrEmptyArray(item.changes))))
      [] OTHER ->
           LET text == Or(item.text, Or(item.content, item.aggregated_output))
           IN IF Truthy(text) THEN AssistantMessage(TextBlock(text)) ELSE Null

(***************************************************************************)
(* CodexProvider.convertToProviderFormat                                   *)
(***************************************************************************)
convertToProviderFormat(event) ==
  LET item == IF event.item # NoItem THEN event.item ELSE event.data IN
  CASE event.type = CODEX_EVENT_TYPES.THREAD_STARTED -> Null
    [] event.type = CODEX_EVENT_TYPES.ITEM_COMPLETED -> convertItemCompleted(item)
    [] event.type = CODEX_EVENT_TYPES.ITEM_STARTED ->
         IF item.type = "command_execution" /\ Truthy(item.command)
         THEN AssistantMessage(
                ToolUseBlock(Str("bash"), [command |-> item.command]))
         ELSE IF item.type = "todo_list" /\ item.items # NoArray
         THEN AssistantMessage(TextBlock(
                <<"BOLD(Todo List:)", "\n">> \o TodoText(item.items)))
         ELSE Null
    [] event.type = "item.updated" ->
         IF item.type = "todo_list" /\ item.items # NoArray
         THEN AssistantMessage(TextBlock(
                <<"BOLD(Updated Todo List:)", "\n">> \o UpdatedTodoText(item.items)))
         ELSE Null
    [] event.type = CODEX_EVENT_TYPES.THREAD_COMPLETED -> ResultMessage
    [] event.type = CODEX_EVENT_TYPES.ERROR ->
         ErrorMessage(
           Or(event.data.message,
              Or(event.item.message,
                 Or(event.message, Str("Unknown error from Codex CLI")))))
    [] event.type \in {"turn.started", "turn.completed"} -> Null
    [] OTHER -> Null

(***************************************************************************)
(* Failure causes (JavaScript Error objects) and their classification      *)
(* (lib/error-handler.ts, as docs/server/utilities.md documents it).       *)
(***************************************************************************)
Cause(name, message) == [name |-> name, message |-> message]
NoCause == Cause("none", Undefined)

\* The phrases isAuthenticationError detects.
AuthPhrases ==
  {"Authentication failed", "Invalid API key", "authentication_failed",
   "Fix external API key"}

isAbortError(cause) == cause.name = "AbortError"

\* String.prototype.toLowerCase on the tokens that differ from it.
ToLower(t) ==
  CASE t = "Authentication failed" -> "authentication failed"
    [] t = "AUTHENTICATION FAILED" -> "authentication failed"
    [] t = "Invalid API key" -> "invalid api key"
    [] t = "Fix external API key" -> "fix external api key"
    [] t = "Boom" -> "boom"
    [] OTHER -> t

\* A faulty match: the phrases are compared as they are written.
isAuthenticationErrorCaseSensitive(errorMessage) ==
  \E i \in 1..Len(errorMessage) : errorMessage[i] \in AuthPhrases

\* A substring match of the phrases that ignores case.
isAuthenticationError(errorMessage) ==
  \E i \in 1..Len(errorMessage) :
    ToLower(errorMessage[i]) \in { ToLower(phrase) : phrase \in AuthPhrases }

\* classifyError(error).type
classifyError(cause) ==
  IF isAbortError(cause) THEN "abort"
  ELSE IF cause.message # Undefined /\ isAuthenticationError(cause.message)
  THEN "authentication"
  ELSE IF Truthy(cause.message) THEN "execution"
  ELSE "unknown"

\* interface ErrorInfo { type; message; isAbort; isAuth }
ErrorInfo(cause) ==
  [type |-> classifyError(cause), message |-> cause.message,
   isAbort |-> classifyError(cause) = "abort",
   isAuth |-> classifyError(cause) = "authentication"]
NoInfo ==
  [type |-> "none", message |-> Undefined, isAbort |-> FALSE, isAuth |-> FALSE]

\* Number of tokens of a failure's message at most.
MaxTokens == 2

(***************************************************************************)
(* The subprocess's standard output.  A line is the text of one stdout     *)
(* line: whether it is well-formed JSON, and the value it denotes if       *)
(* parsed.                                                                 *)
(***************************************************************************)
Line(json, value) == [json |-> json, value |-> value]

CommandItem ==
  [NoItem EXCEPT !.type = "command_execution", !.id = Str("cmd-1")]

Events ==
  { CodexEvent("item.started", [CommandItem EXCEPT !.command = Str("ls")],
               Undefined),
    CodexEvent("item.completed",
               [CommandItem EXCEPT !.output = Str("file1\nfile2")], Undefined),
    CodexEvent("item.completed",
               [NoItem EXCEPT !.type = "tool_result",
                              !.tool_use_id = Str("call-1"),
                              !.output = Str("done")], Undefined),
    CodexEvent("thread.completed", NoItem, Undefined),
    CodexEvent("error", NoItem, Str("boom")),
    CodexEvent("custom.note", [NoItem EXCEPT !.text = Str("note")], Undefined) }

\* Lines that are not JSON; the value is what a lenient parser would read.
MalformedLines ==
  { Line(FALSE, CodexEvent("item.completed",
                 [NoItem EXCEPT !.type = "agent_message", !.text = Str("Hello")],
                 Undefined)) }

Lines == { Line(TRUE, e) : e \in Events } \cup MalformedLines

\* Messages the Claude Agent SDK stream delivers.
SdkMessages ==
  { AssistantMessage(TextBlock(Str("Hi"))),
    [ResultMessage EXCEPT !.result = Str("Hi")] }

\* Failures the Claude Agent SDK stream throws.
SdkCauses ==
  { Cause("Error", Str("Claude Code process exited with code 1")),
    Cause("AbortError", Str("The operation was aborted")) }

(***************************************************************************)
(* spawnJSONLProcess (lib/subprocess-manager.ts): the lazy sequence of     *)
(* parsed stdout records, its stall timer and its failure signals.         *)
(***************************************************************************)
\* timeout: 30000 passed by CodexProvider.executeQuery.
timeout == 30000

\* The records one line contributes: a line that fails JSON.parse is dropped.
ParseLine(line) == IF line.json THEN <<line.value>> ELSE <<>>

TimeoutCause ==
  Cause("Error", <<"Process timed out after ", "30000", "ms of no output">>)
ExitCause ==
  Cause("Error", <<"Process exited with code ", "1", ": ", "stderr tail">>)

\* A record after which a non-zero exit is no longer surfaced as a failure.
IsTerminalRecord(line) ==
  line.json /\ line.value.type \in {"thread.completed", "error"}

\* Closing the sequence (the generator's finally) terminates the process.
spawnJSONLProcessReturn(p) == IF p = "running" THEN "killed" ELSE p

(***************************************************************************)
(* Bounds of the requests.                                                 *)
(***************************************************************************)
\* Number of entries of a conversation history at most.
MaxHistory == 2
\* Number of content blocks of a multi-part prompt at most.
MaxBlocks == 3

(***************************************************************************)
(* ExecuteOptions: prompt, conversation history and their conversions      *)
(* (lib/conversation-utils.ts, modelled from its documentation).           *)
(***************************************************************************)
\* prompt: string | Array<ContentBlock>.
StringPrompt(t) == [kind |-> "string", text |-> t, blocks |-> <<>>]
ArrayPrompt(bs) == [kind |-> "array", text |-> Undefined, blocks |-> bs]

\* An image block; its source data plays no part in either adapter.
ImageBlock == [NoBlock EXCEPT !.type = "image"]

\* interface ConversationMessage { role; content }
ConversationMessage(role, content) == [role |-> role, content |-> content]
\* An absent (undefined) conversationHistory; any other sequence is an array.
NoHistory == <<ConversationMessage("undefined", Undefined)>>
\* conversationHistory && conversationHistory.length > 0
HasHistory(history) == history # NoHistory /\ history # <<>>

\* Concatenation of a sequence of strings.
RECURSIVE Concat(_)
Concat(parts) ==
  IF parts = <<>> THEN <<>> ELSE Head(parts) \o Concat(Tail(parts))

RoleLabel(role) == IF role = "user" THEN <<"User">> ELSE <<"Assistant">>

\* formatHistoryAsText: a heading, one "Role: text" paragraph per entry in
\* order, and a closing rule; the empty string if there is no history.
formatHistoryAsText(history) ==
  IF ~HasHistory(history) THEN <<>>
  ELSE <<"Previous conversation:\n\n">>
         \o Concat([i \in 1..Len(history) |->
              RoleLabel(history[i].role) \o <<": ">> \o history[i].content
                \o <<"\n\n">>])
         \o <<"---\n\n">>

\* normalizeContentBlocks: a string becomes one text block, an array passes
\* through.
normalizeContentBlocks(prompt) ==
  IF prompt.kind = "string" THEN <<TextBlock(prompt.text)>> ELSE prompt.blocks

\* An SDK message as it is replayed to the Claude Agent SDK.
SdkReplayMessage(role, blocks) ==
  [type |-> role, role |-> role, content |-> blocks]

\* convertHistoryToMessages: one SDK message per entry, typed by its role.
convertHistoryToMessages(history) ==
  [i \in 1..Len(history) |->
     SdkReplayMessage(history[i].role, <<TextBlock(history[i].content)>>)]

(***************************************************************************)
(* CodexProvider: what executeQuery computes before it spawns the CLI.     *)
(***************************************************************************)
\* A faulty resolution: the environment override wins over the config.
findCodexPathEnvironmentFirst(env) ==
  IF Truthy(env.CODEX_CLI_PATH) THEN env.CODEX_CLI_PATH
  ELSE IF Truthy(env.cliPath) THEN env.cliPath
  ELSE Or(env.detectionPath, Str("codex"))

\* findCodexPath: config override, environment override, detected path,
\* and the bare command name as the last resort.
findCodexPath(env) ==
  IF Truthy(env.cliPath) THEN env.cliPath
  ELSE IF Truthy(env.CODEX_CLI_PATH) THEN env.CODEX_CLI_PATH
  ELSE Or(env.detectionPath, Str("codex"))

CliNotFoundMessage ==
  ErrorMessage(<<"Codex CLI not found. ",
                 "Please install it with: npm install -g @openai/codex@latest">>)

\* getMcpServerPath: "TODO: Implement MCP server path resolution"; null.
getMcpServerPath == Undefined

\* A faulty MCP step: an auxiliary server that cannot be configured is
\* reported to the caller.
McpFailureReported(requested, path) ==
  IF requested /\ ~Truthy(path)
  THEN <<ErrorMessage(Str("Failed to configure MCP server"))>>
  ELSE <<>>

\* The messages the MCP step yields: none, whether the server script is
\* unresolved (the configuration is skipped) or the configuration throws
\* (the catch logs and continues).
McpMessages(requested, path) == <<>>

\* How the MCP step ends.
McpOutcome(requested, path) ==
  IF ~requested THEN "not requested"
  ELSE IF Truthy(path) THEN "configured" ELSE "unresolved"

IsTextBlock(block) == block.type = "text"
BlockTextOrEmpty(block) == Or(block.text, <<>>)
RECURSIVE MapText(_)
MapText(blocks) ==
  IF blocks = <<>> THEN <<>>
  ELSE <<BlockTextOrEmpty(Head(blocks))>> \o MapText(Tail(blocks))

\* A faulty extraction: the blocks are not filtered by type.
ExtractEveryBlock(blocks) == JoinLines(MapText(blocks))

\* prompt.filter(block => block.type === "text")
\*       .map(block => block.text || "").join("\n")
ExtractText(blocks) == JoinLines(MapText(SelectSeq(blocks, IsTextBlock)))

\* combinedPrompt before the system prompt and the history are added.
PromptText(prompt) ==
  IF prompt.kind = "string" THEN prompt.text ELSE ExtractText(prompt.blocks)

\* A faulty composition: the system prompt is ignored.
SystemPromptDropped(systemPrompt, text) == text

\* if (systemPrompt) combinedPrompt = `${systemPrompt}\n\n---\n\n${combinedPrompt}`
WithSystemPrompt(systemPrompt, text) ==
  IF Truthy(systemPrompt) THEN systemPrompt \o <<"\n\n---\n\n">> \o text
  ELSE text

\* A faulty composition: the transcript is placed after the request.
HistoryAfterPrompt(history, text) ==
  IF HasHistory(history)
  THEN <<"Current request:\n">> \o text \o formatHistoryAsText(history)
  ELSE text

\* if (history non-empty)
\*   combinedPrompt = `${formatHistoryAsText(history)}Current request:\n${combinedPrompt}`
WithHistory(history, text) ==
  IF HasHistory(history)
  THEN formatHistoryAsText(history) \o <<"Current request:\n">> \o text
  ELSE text

combinedPrompt(opts) ==
  WithHistory(opts.conversationHistory,
              WithSystemPrompt(opts.systemPrompt, PromptText(opts.prompt)))

\* model = "gpt-5.2" in the destructuring of options.
ModelOrDefault(model) == IF model = Undefined THEN Str("gpt-5.2") ELSE model

\* A faulty argument vector: JSONL output is not requested.
buildArgsWithoutJson(prompt, model) ==
  <<Str("exec"), Str("--model"), model, Str("--full-auto"), prompt>>

buildArgs(prompt, model) ==
  <<Str("exec"), Str("--model"), model, Str("--json"), Str("--full-auto"),
    prompt>>

\* const hasApiKey = this.config.apiKey || process.env.OPENAI_API_KEY
hasApiKey(env) == Truthy(Or(env.apiKey, env.OPENAI_API_KEY))

\* A faulty authentication check: the call always goes on.
AuthCheckSkipped(cliAuthenticated, key) == TRUE

\* The negation of (!auth.authenticated && !hasApiKey).
PassesAuthCheck(cliAuthenticated, key) == cliAuthenticated \/ key

NotAuthenticatedMessage ==
  ErrorMessage(<<"Codex CLI is not authenticated. Please run 'codex login' ",
                 "or set ", "OPENAI_API_KEY", " environment variable.">>)

\* detectInstallation: what CodexCliDetector found, with authenticated taken
\* from checkAuth() alone and hasApiKey from the environment key or the login.
detectInstallation(env) ==
  [installed |-> Truthy(env.detectionPath), path |-> env.detectionPath,
   hasApiKey |-> Truthy(env.OPENAI_API_KEY) \/ env.cliAuthenticated,
   authenticated |-> env.cliAuthenticated]

\* A faulty selection: with an API key the CLI is not spawned.
DirectWhenKeyed(allowedTools, key) == ~key

\* Whether the CLI is spawned once the checks have passed: always, executeQuery
\* reads neither allowedTools nor the key to decide it.
SpawnsCli(allowedTools, key) == TRUE

\* What one call hands to its backend.
NoPayload == [kind |-> "none", text |-> Undefined, records |-> <<>>]
NoSent ==
  [command |-> Undefined, args |-> <<>>, spawned |-> FALSE, early |-> <<>>,
   mcp |-> "not requested", payload |-> NoPayload,
   allowedTools |-> Undefined]

\* executeQuery from its first line to the call of spawnJSONLProcess: the
\* command and arguments, whether the process is spawned, and the messages
\* yielded on the way.
Prepare(opts, env) ==
  LET codexPath == findCodexPath(env)
      path == getMcpServerPath
      requested == opts.mcpServers
      args == buildArgs(combinedPrompt(opts), ModelOrDefault(opts.model))
      key == hasApiKey(env)
  IN IF ~Truthy(codexPath)
     THEN [NoSent EXCEPT !.early = <<CliNotFoundMessage>>]
     ELSE IF ~PassesAuthCheck(env.cliAuthenticated, key)
     THEN [NoSent EXCEPT !.command = codexPath,
                         !.mcp = McpOutcome(requested, path),
                         !.early = McpMessages(requested, path)
                                     \o <<NotAuthenticatedMessage>>]
     ELSE [NoSent EXCEPT !.command = codexPath, !.args = args,
                         !.mcp = McpOutcome(requested, path),
                         !.early = McpMessages(requested, path),
                         !.spawned = SpawnsCli(opts.allowedTools, key)]

(***************************************************************************)
(* ClaudeProvider: the prompt payload passed to query().                   *)
(***************************************************************************)
\* const defaultTools = [...]
defaultTools ==
  <<"Read", "Write", "Edit", "Glob", "Grep", "Bash", "WebSearch", "WebFetch">>

\* A faulty choice: an empty list counts as no list.
toolsToUseUnlessEmpty(allowedTools) ==
  IF allowedTools = Undefined \/ allowedTools = <<>> THEN defaultTools
  ELSE allowedTools

\* const toolsToUse = allowedTools || defaultTools; an array, empty or not,
\* is truthy.
toolsToUse(allowedTools) ==
  IF allowedTools = Undefined THEN defaultTools ELSE allowedTools

\* The two definitions of ClaudeProvider in the repository.
Revisions == {"part_000", "claude-provider.ts"}

IsUserMessage(msg) == msg.type = "user"

\* The history messages replayed: part_000 keeps the user messages only when
\* an assistant message is present; claude-provider.ts replays every message.
ReplayedHistory(revision, history) ==
  LET historyMessages == convertHistoryToMessages(history)
      hasAssistantMessages ==
        \E i \in 1..Len(historyMessages) : historyMessages[i].type = "assistant"
  IN IF revision = "part_000" /\ hasAssistantMessages
     THEN SelectSeq(historyMessages, IsUserMessage)
     ELSE historyMessages

\* { type: "user", message: { role: "user", content } }
CurrentPrompt(blocks) == SdkReplayMessage("user", blocks)

promptPayload(revision, opts) ==
  IF HasHistory(opts.conversationHistory)
  THEN [NoPayload EXCEPT
          !.kind = "generator",
          !.records = ReplayedHistory(revision, opts.conversationHistory)
                        \o <<CurrentPrompt(normalizeContentBlocks(opts.prompt))>>]
  ELSE IF opts.prompt.kind = "array"
  THEN [NoPayload EXCEPT !.kind = "generator",
                         !.records = <<CurrentPrompt(opts.prompt.blocks)>>]
  ELSE [NoPayload EXCEPT !.kind = "string", !.text = opts.prompt.text]

(***************************************************************************)
(* The inputs of one call.                                                 *)
(***************************************************************************)
DefaultOptions ==
  [allowedTools |-> Undefined, prompt |-> StringPrompt(Str("and double it?")),
   model |-> Undefined, systemPrompt |-> Undefined, mcpServers |-> FALSE,
   conversationHistory |-> NoHistory]

\* process.env, the provider's config (apiKey, cliPath) and what
\* CodexCliDetector reports (checkAuth().authenticated, detection.path).
DefaultEnviron ==
  [OPENAI_API_KEY |-> Undefined, apiKey |-> Undefined,
   cliAuthenticated |-> TRUE, cliPath |-> Undefined,
   CODEX_CLI_PATH |-> Undefined, detectionPath |-> Undefined]

AllowedToolsValues == {Undefined, <<>>, <<"Read">>}
KeyValues == {Undefined, Str("sk-test")}

RECURSIVE SeqsUpTo(_, _)
SeqsUpTo(S, n) ==
  IF n = 0 THEN {<<>>}
  ELSE LET shorter == SeqsUpTo(S, n - 1)
       IN shorter \cup { Append(s, x) : s \in shorter, x \in S }

HistoryEntries ==
  { ConversationMessage("user", Str("2+2?")),
    ConversationMessage("assistant", Str("4")) }
Histories == {NoHistory} \cup SeqsUpTo(HistoryEntries, MaxHistory)

PromptBlocks == {TextBlock(Str("look")), TextBlock(Str("here")), ImageBlock}
Prompts ==
  {StringPrompt(Str("and double it?"))}
    \cup { ArrayPrompt(bs) : bs \in SeqsUpTo(PromptBlocks, MaxBlocks) \ {<<>>} }

\* Calls that vary what decides whether and what is spawned.
SelectionOptions ==
  { [DefaultOptions EXCEPT !.allowedTools = t, !.mcpServers = m] :
      t \in AllowedToolsValues, m \in BOOLEAN }
SelectionEnvirons ==
  { [DefaultEnviron EXCEPT !.OPENAI_API_KEY = k, !.apiKey = c,
                           !.cliAuthenticated = a, !.cliPath = p,
                           !.CODEX_CLI_PATH = e, !.detectionPath = d] :
      k \in KeyValues, c \in KeyValues, a \in BOOLEAN,
      p \in {Undefined, Str("/opt/codex")},
      e \in {Undefined, Str("/env/codex")},
      d \in {Undefined, Str("/usr/bin/codex")} }

\* Calls that vary what the prompt is built from.
PromptOptions ==
  { [DefaultOptions EXCEPT !.prompt = p, !.conversationHistory = h,
                           !.systemPrompt = s, !.model = m,
                           !.mcpServers = x] :
      p \in Prompts, h \in Histories,
      s \in {Undefined, Str("Be brief.")},
      m \in {Undefined, Str("gpt-5.1-codex")}, x \in BOOLEAN }
PromptEnvirons ==
  { [DefaultEnviron EXCEPT !.cliAuthenticated = a] : a \in BOOLEAN }

\* Calls of the Claude adapter.
ClaudeOptions ==
  { [DefaultOptions EXCEPT !.prompt = p, !.conversationHistory = h,
                           !.allowedTools = t] :
      p \in Prompts, h \in Histories, t \in AllowedToolsValues }

(***************************************************************************)
(* The HTTP routes: project diffs, file diff, worktree diffs, and the      *)
(* template clone.  A handler is a chain of awaited operations; what the   *)
(* file system and git answer is chosen at each of them.                   *)
(***************************************************************************)
\* Number of lines of a git status output, and of files of a listing, at most.
MaxStatusLines == 2

\* req.body; an absent body (undefined) makes the destructuring throw.
NoBody ==
  [present |-> FALSE, projectPath |-> Undefined, featureId |-> Undefined,
   filePath |-> Undefined, repoUrl |-> Undefined, projectName |-> Undefined,
   parentDir |-> Undefined]

\* A response: the status code and the JSON object sent.
NoResponse ==
  [status |-> 0, success |-> FALSE, error |-> Undefined, diff |-> Undefined,
   files |-> <<>>, hasChanges |-> FALSE, hasFiles |-> FALSE,
   filePath |-> Undefined, projectPath |-> Undefined,
   projectName |-> Undefined]

\* res.status(code).json({ success: false, error })
ErrorResponse(code, text) ==
  [NoResponse EXCEPT !.status = code, !.error = text]

\* res.json({ success: true, diff, files, hasChanges })
DiffsResponse(diff, files, hasChanges) ==
  [NoResponse EXCEPT !.status = 200, !.success = TRUE, !.diff = diff,
                     !.files = files, !.hasFiles = TRUE,
                     !.hasChanges = hasChanges]

\* res.json({ success: true, diff: "", files: [], hasChanges: false })
EmptyDiffsResponse == DiffsResponse(<<>>, <<>>, FALSE)

\* res.json({ success: true, diff, filePath })
FileDiffResponse(diff, filePath) ==
  [NoResponse EXCEPT !.status = 200, !.success = TRUE, !.diff = diff,
                     !.filePath = filePath]

\* res.json({ success: true, projectPath, projectName })
CloneResponse(projectPath, projectName) ==
  [NoResponse EXCEPT !.status = 200, !.success = TRUE,
                     !.projectPath = projectPath,
                     !.projectName = projectName]

\* statusMap[statusChar] || "Unknown"
StatusText(statusChar) ==
  CASE statusChar = "M" -> "Modified"
    [] statusChar = "A" -> "Added"
    [] statusChar = "D" -> "Deleted"
    [] statusChar = "R" -> "Renamed"
    [] statusChar = "C" -> "Copied"
    [] statusChar = "U" -> "Updated"
    [] statusChar = "?" -> "Untracked"
    [] OTHER -> "Unknown"

\* status.split("\n").filter(Boolean).map(line => ({ status: line[0],
\*   path: line.slice(3), statusText })): the empty pieces are dropped, every
\* other line becomes a file.
RECURSIVE ParseStatus(_)
ParseStatus(statusLines) ==
  IF statusLines = <<>> THEN <<>>
  ELSE LET line == Head(statusLines)
       IN IF line = <<>> THEN ParseStatus(Tail(statusLines))
          ELSE <<[status |-> line[1],
                  path |-> SubSeq(line, 4, Len(line)),
                  statusText |-> StatusText(line[1])]>>
                 \o ParseStatus(Tail(statusLines))

\* generateSyntheticDiffForNewFile: the header every variant starts with;
\* the lines after it render the file's bytes.
generateSyntheticDiffForNewFile(relativePath) ==
  <<"diff --git a/">> \o relativePath \o <<" b/">> \o relativePath
    \o <<"\nnew file mode 100644\nindex 0000000..0000000\n">>

\* files.map(f => generateSyntheticDiffForNewFile(basePath, f.path)).join("")
RECURSIVE SyntheticDiffs(_)
SyntheticDiffs(files) ==
  IF files = <<>> THEN <<>>
  ELSE generateSyntheticDiffForNewFile(Head(files).path)
         \o SyntheticDiffs(Tail(files))

\* appendUntrackedFileDiffs: the diff followed by a synthetic diff for every
\* untracked file.
appendUntrackedFileDiffs(existingDiff, files) ==
  existingDiff \o SyntheticDiffs(SelectSeq(files, LAMBDA f : f.status = "?"))

\* generateDiffsForNonGitDirectory: every listed file is a new file.
generateDiffsForNonGitDirectory(allFiles) ==
  LET files == [i \in 1..Len(allFiles) |->
                  [status |-> "?", path |-> allFiles[i],
                   statusText |-> "New"]]
  IN [diff |-> SyntheticDiffs(files), files |-> files]

\* What `git status --porcelain` can print, line by line and character by
\* character ("" is the piece split("\n") leaves after the last newline);
\* what `git diff HEAD` can print; what listAllFilesInDirectory can return.
StatusOutputs ==
  SeqsUpTo({ <<"M", " ", " ", "a">>, <<"?", "?", " ", "b">>,
             <<"X", " ", " ", "c">>, <<>> }, MaxStatusLines)
DiffOutputs == {<<>>, <<"diff --git a/a b/a\n">>}
Listings == SeqsUpTo({<<"a">>, <<"b">>}, MaxStatusLines)

\* The locals of a diffs handler, and the history of its failures.
NoFrame ==
  [target |-> "none", diff |-> <<>>, failed |-> <<>>, code |-> -1,
   targetExists |-> FALSE, projectPath |-> Undefined,
   sanitizedName |-> Undefined]

\* A faulty non-git branch: the return after the response is missing.
NonGitFallsThrough == "gitdiff"

\* return; after the response of the non-git branch.
AfterNonGitResponse == "done"

\* A faulty last resort: the failure of the fallback is reported.
FallbackFailureAsError ==
  ErrorResponse(500, Str("Fallback to main project also failed"))

\* The response when the fallback to the main project fails as well.
FallbackFailureResponse == EmptyDiffsResponse

\* /^https:\/\/github\.com\/[\w-]+\/[\w.-]+$/.test(repoUrl); a URL is the
\* sequence of its origin, its segments and the slashes between them, and
\* the character classes are those of the segments requests are built from.
githubUrlPattern(repoUrl) ==
  LET IsWordOrDash(segment) == segment \in {"acme", "my-org", "starter_1"}
      IsWordDotOrDash(segment) ==
        IsWordOrDash(segment) \/ segment = "starter.kit"
  IN /\ Len(repoUrl) = 4
     /\ repoUrl[1] = "https://github.com/"
     /\ IsWordOrDash(repoUrl[2])
     /\ repoUrl[3] = "/"
     /\ IsWordDotOrDash(repoUrl[4])

\* projectName.replace(/[^a-zA-Z0-9-_]/g, "-"), character by character.
sanitizedName(projectName) ==
  [i \in 1..Len(projectName) |->
     IF projectName[i] \in {"a", "p", "x", "0", "-", "_"}
       THEN projectName[i] ELSE "-"]

\* The segments of a path between its slashes.
RECURSIVE SplitPath(_, _)
SplitPath(chars, segment) ==
  IF chars = <<>> THEN <<segment>>
  ELSE IF Head(chars) = "/"
       THEN <<segment>> \o SplitPath(Tail(chars), <<>>)
       ELSE SplitPath(Tail(chars), Append(segment, Head(chars)))

\* path.relative(path.resolve(parentDir), path.resolve(path.join(parentDir,
\* name))): the name with "." and ".." resolved, led by one "../" for each
\* step above parentDir.
RECURSIVE ResolveFrom(_, _, _)
ResolveFrom(segments, up, kept) ==
  IF segments = <<>> THEN [up |-> up, kept |-> kept]
  ELSE LET s == Head(segments)
       IN IF s = <<>> \/ s = <<".">>
          THEN ResolveFrom(Tail(segments), up, kept)
          ELSE IF s = <<".", ".">>
               THEN IF kept = <<>>
                    THEN ResolveFrom(Tail(segments), up + 1, kept)
                    ELSE ResolveFrom(Tail(segments), up,
                                     SubSeq(kept, 1, Len(kept) - 1))
               ELSE ResolveFrom(Tail(segments), up, Append(kept, s))

RECURSIVE JoinSegments(_)
JoinSegments(segments) ==
  IF segments = <<>> THEN <<>>
  ELSE IF Len(segments) = 1 THEN Head(segments)
       ELSE Head(segments) \o <<"/">> \o JoinSegments(Tail(segments))

relativePath(name) ==
  LET r == ResolveFrom(SplitPath(name, <<>>), 0, <<>>)
  IN JoinSegments([i \in 1..r.up |-> <<".", ".">>] \o r.kept)

\* relativePath.startsWith("..") || path.isAbsolute(relativePath)
IsTraversal(relative) ==
  \/ Len(relative) >= 2 /\ relative[1] = "." /\ relative[2] = "."
  \/ Len(relative) >= 1 /\ relative[1] = "/"

\* path.join(parentDir, sanitizedName), the characters of the name as one
\* string.
ProjectPath(parentDir, name) ==
  IF parentDir = <<"/">> THEN parentDir \o name
  ELSE parentDir \o <<"/">> \o name

\* addAllowedPath(projectPath) of lib/security.js: the path joins the
\* allowed paths.
addAllowedPath(paths, path) == paths \cup {path}

\* A faulty check of the clone's result: every exit counts as success.
CloneAlwaysSucceeded(code) == TRUE

\* gitProcess.on("close"): code === 0 resolves { success: true }.
CloneSucceeded(code) == code = 0

\* stderr || `Git clone failed with code ${code}`
CloneFailureMessage(stderr, code) ==
  IF Truthy(stderr) THEN stderr
  ELSE <<"Git clone failed with code ", ToString(code)>>

(***************************************************************************)
(* State.                                                                  *)
(***************************************************************************)
VARIABLES
  provider,  \* "claude" or "codex": the adapter whose executeQuery runs
  revision,  \* which definition of the adapter's class runs
  options,   \* ExecuteOptions of the call
  environ,   \* process.env, provider config and the CLI's login state
  pc,        \* where executeQuery's generator stands
  proc,      \* the spawned process: none, running, exited, killed
  aborted,   \* abortController.signal.aborted
  silence,   \* milliseconds since the last stdout line arrived
  lines,     \* the stdout lines read so far, in arrival order
  out,       \* the messages executeQuery has yielded, in order
  origin,    \* origin[i]: index in lines of the record out[i] converts, or 0
  cause,     \* the failure the adapter caught or threw, NoCause if none
  mark,      \* history: Len(out) and Len(lines) at abort and at failure
  sent,      \* what the call handed to its backend, NoSent before it did
  calls,     \* the calls that run at once, when two do: calls[c] is the
             \* state of call c; empty otherwise
  thrown,    \* the value handed to classifyError
  info,      \* the ErrorInfo classifyError returned, NoInfo before it did
  route,     \* the HTTP handler that runs, "none" when none does
  body,      \* req.body of the request
  hpc,       \* where the handler stands
  frame,     \* the handler's locals, and the failures it has met
  res,       \* the responses sent on the request's res, in order
  spawns,    \* the git commands the clone route has spawned, in order
  allowedPaths  \* the paths addAllowedPath has added

vars ==
  <<provider, revision, options, environ, pc, proc, aborted, silence, lines,
    out, origin, cause, mark, sent, calls, thrown, info, route, body, hpc,
    frame, res, spawns, allowedPaths>>

\* The variables of the HTTP routes.
web == <<route, body, hpc, frame, res, spawns, allowedPaths>>

\* No request is being handled.
Idle ==
  /\ route = "none"
  /\ body = NoBody
  /\ hpc = "idle"
  /\ frame = NoFrame
  /\ res = <<>>
  /\ spawns = <<>>
  /\ allowedPaths = {}

NoMark ==
  [abortOut |-> -1, abortLines |-> -1, failOut |-> -1, failLines |-> -1,
   pulled |-> 0]

\* The state before the first next() of the generator.
Fresh ==
  /\ pc = "start"
  /\ proc = "none"
  /\ aborted = FALSE
  /\ silence = 0
  /\ lines = <<>>
  /\ out = <<>>
  /\ origin = <<>>
  /\ cause = NoCause
  /\ mark = NoMark
  /\ sent = NoSent
  /\ thrown = NoCause
  /\ info = NoInfo

\* Calls that differ in the tools, the API key and the CLI login; the
\* streams they consume are explored in full.
Init ==
  /\ provider \in {"claude", "codex"}
  /\ revision \in IF provider = "claude" THEN Revisions ELSE {"part_000"}
  /\ options \in { [DefaultOptions EXCEPT !.allowedTools = t] :
                     t \in AllowedToolsValues }
  /\ environ \in { [DefaultEnviron EXCEPT !.OPENAI_API_KEY = k,
                                          !.cliAuthenticated = a] :
                     k \in KeyValues, a \in BOOLEAN }
  /\ calls = <<>>
  /\ Fresh
  /\ Idle

(***************************************************************************)
(* CodexProvider.executeQuery                                              *)
(***************************************************************************)
\* A faulty loop body: every conversion result is yielded, null included.
YieldedAlways(converted) == <<converted>>

\* if (converted) { yield converted; }
Yielded(converted) == IF converted # Null THEN <<converted>> ELSE <<>>

\* A faulty completion: a stream that ends is reported as an error.
CompletionAsError == ErrorMessage(Str("Codex CLI ended"))

\* The completion event yielded after the stream is exhausted.
CompletionMessage == ResultMessage

\* A faulty catch block: the failure is logged and nothing is yielded.
CatchSilently(error) == <<>>

\* A faulty catch block: a fixed text is reported instead of error.message.
CatchGenericMessage(error) == <<ErrorMessage(Str("Unknown error"))>>

\* catch (error) { yield { type: "error", error: error.message } }
CatchMessages(error) == <<ErrorMessage(error.message)>>

\* A faulty loop: it goes on to the next record without waiting for the
\* consumer.
NeverSuspended(yielded) == "await"

\* yield suspends the generator until the consumer's next(); a record that
\* yields nothing leaves the loop awaiting the stream.
SuspendedAt(yielded) == IF yielded = <<>> THEN "await" ELSE "yielded"

\* A faulty early exit: the loop is left without closing the stream.
LeaveStreamOpen(p) == p

\* Leaving the for await loop early calls the stream's return().
ForAwaitReturn(p) == spawnJSONLProcessReturn(p)

\* The first next(): everything up to the first yield or the first await of
\* the stream.
CodexStart ==
  /\ provider = "codex"
  /\ pc = "start"
  /\ sent' = Prepare(options, environ)
  /\ out' = out \o sent'.early
  /\ origin' = origin \o [i \in 1..Len(sent'.early) |-> 0]
  /\ proc' = IF sent'.spawned THEN "running" ELSE proc
  /\ pc' = IF sent'.spawned THEN "await" ELSE "final"
  /\ silence' = 0
  /\ UNCHANGED <<web, calls, thrown, info, provider, revision, options, environ, aborted, lines, cause,
                 mark>>

\* A stdout line arrives while the adapter awaits the stream: the timer is
\* reset, the line is parsed, and the loop body converts the record.
ReadLine(line) ==
  /\ provider = "codex"
  /\ pc = "await"
  /\ proc = "running"
  /\ Len(lines) < MaxLines
  /\ lines' = Append(lines, line)
  /\ silence' = 0
  /\ LET records == ParseLine(line)
         yielded == IF records = <<>> THEN <<>>
                    ELSE Yielded(convertToProviderFormat(records[1]))
     IN /\ out' = out \o yielded
        /\ origin' = origin \o [i \in 1..Len(yielded) |-> Len(lines) + 1]
        /\ pc' = SuspendedAt(yielded)
  /\ UNCHANGED <<web, calls, thrown, info, provider, revision, options, environ, sent, proc, aborted, cause, mark>>

\* Time passes without output.
Tick ==
  /\ provider = "codex"
  /\ pc = "await"
  /\ proc = "running"
  /\ silence < timeout
  /\ silence' = silence + TickMs
  /\ UNCHANGED <<web, calls, thrown, info, provider, revision, options, environ, sent, pc, proc, aborted, lines, out,
                 origin, cause, mark>>

\* The adapter's reaction to the stream throwing.
StreamThrows(error) ==
  /\ cause' = error
  /\ out' = out \o CatchMessages(error)
  /\ origin' = origin \o [i \in 1..Len(CatchMessages(error)) |-> 0]
  /\ pc' = IF CatchMessages(error) = <<>> THEN "done" ELSE "final"
  /\ mark' = [mark EXCEPT !.failOut = Len(out), !.failLines = Len(lines)]

\* The adapter's reaction to the stream ending.
StreamEnds ==
  /\ out' = Append(out, CompletionMessage)
  /\ origin' = Append(origin, 0)
  /\ pc' = "final"

\* The stall timer fires: the process is killed, the stream throws.
StallTimeout ==
  /\ provider = "codex"
  /\ pc = "await"
  /\ proc = "running"
  /\ silence >= timeout
  /\ proc' = "killed"
  /\ StreamThrows(TimeoutCause)
  /\ UNCHANGED <<web, calls, thrown, info, provider, revision, options, environ, sent, aborted, silence, lines>>

\* The process exits with code 0: the stream ends.
ExitZero ==
  /\ provider = "codex"
  /\ pc = "await"
  /\ proc = "running"
  /\ proc' = "exited"
  /\ StreamEnds
  /\ UNCHANGED <<web, calls, thrown, info, provider, revision, options, environ, sent, aborted, silence, lines, cause,
                 mark>>

\* The process exits with a non-zero code.
ExitNonZero ==
  /\ provider = "codex"
  /\ pc = "await"
  /\ proc = "running"
  /\ proc' = "exited"
  /\ IF \E i \in 1..Len(lines) : IsTerminalRecord(lines[i])
     THEN StreamEnds /\ UNCHANGED <<cause, mark>>
     ELSE StreamThrows(ExitCause)
  /\ UNCHANGED <<web, calls, thrown, info, provider, revision, options, environ, sent, aborted, silence, lines>>

\* The caller raises the cancellation handle while the call is streaming.
RaiseAbort ==
  /\ provider = "codex"
  /\ proc = "running"
  /\ ~aborted
  /\ aborted' = TRUE
  /\ proc' = "killed"
  /\ mark' = [mark EXCEPT !.abortOut = Len(out), !.abortLines = Len(lines)]
  /\ UNCHANGED <<web, calls, thrown, info, provider, revision, options, environ, sent, pc, silence, lines, out, origin,
                 cause>>

\* After cancellation the stream ends without a failure signal.
AbortEndsStream ==
  /\ provider = "codex"
  /\ pc = "await"
  /\ aborted
  /\ StreamEnds
  /\ UNCHANGED <<web, calls, thrown, info, provider, revision, options, environ, sent, proc, aborted, silence, lines,
                 cause, mark>>

(***************************************************************************)
(* ClaudeProvider.executeQuery                                             *)
(***************************************************************************)
ClaudeStart ==
  /\ provider = "claude"
  /\ pc = "start"
  /\ sent' = [NoSent EXCEPT !.payload = promptPayload(revision, options),
                            !.allowedTools = toolsToUse(options.allowedTools)]
  /\ pc' = "await"
  /\ UNCHANGED <<web, calls, thrown, info, provider, revision, options, environ, proc, aborted, silence,
                 lines, out, origin, cause, mark>>

\* for await (const msg of stream) { yield msg }
SdkYield(msg) ==
  /\ provider = "claude"
  /\ pc = "await"
  /\ Len(out) < MaxSdkMessages
  /\ out' = Append(out, msg)
  /\ origin' = Append(origin, 0)
  /\ pc' = SuspendedAt(<<msg>>)
  /\ UNCHANGED <<web, calls, thrown, info, provider, revision, options, environ, sent, proc, aborted, silence, lines,
                 cause, mark>>

SdkEnd ==
  /\ provider = "claude"
  /\ pc = "await"
  /\ pc' = "done"
  /\ UNCHANGED <<web, calls, thrown, info, provider, revision, options, environ, sent, proc, aborted, silence, lines,
                 out, origin, cause, mark>>

\* catch (error) { console.error(...); throw error; }: the failure is logged
\* and raised again; nothing is yielded.
SdkThrow(error) ==
  /\ provider = "claude"
  /\ pc = "await"
  /\ cause' = error
  /\ pc' = "threw"
  /\ mark' = [mark EXCEPT !.failOut = Len(out), !.failLines = Len(lines)]
  /\ UNCHANGED <<web, calls, thrown, info, provider, revision, options, environ, sent, proc, aborted, silence, lines,
                 out, origin>>

(***************************************************************************)
(* The consumer of the message sequence.                                   *)
(***************************************************************************)
\* next() on a generator suspended at a yield: the consumer has taken every
\* message yielded so far.
ConsumerNext ==
  /\ pc \in {"yielded", "final"}
  /\ pc' = IF pc = "yielded" THEN "await" ELSE "done"
  /\ mark' = [mark EXCEPT !.pulled = Len(out)]
  /\ UNCHANGED <<web, calls, thrown, info, provider, revision, options, environ,
                 sent, proc, aborted, silence, lines, out, origin, cause>>

\* return() on a generator suspended at a yield: the consumer abandons the
\* iteration.
ConsumerReturn ==
  /\ pc \in {"yielded", "final"}
  /\ pc' = "returned"
  /\ proc' = IF pc = "yielded" THEN ForAwaitReturn(proc) ELSE proc
  /\ mark' = [mark EXCEPT !.pulled = Len(out)]
  /\ UNCHANGED <<web, calls, thrown, info, provider, revision, options, environ,
                 sent, aborted, silence, lines, out, origin, cause>>

Next ==
  \/ CodexStart
  \/ \E line \in Lines : ReadLine(line)
  \/ Tick
  \/ StallTimeout
  \/ ExitZero
  \/ ExitNonZero
  \/ RaiseAbort
  \/ AbortEndsStream
  \/ ClaudeStart
  \/ \E msg \in SdkMessages : SdkYield(msg)
  \/ SdkEnd
  \/ \E error \in SdkCauses : SdkThrow(error)
  \/ ConsumerNext
  \/ ConsumerReturn

Spec == Init /\ [][Next]_vars

\* Calls that differ in everything executeQuery reads before it reaches its
\* backend; each runs to the end of an uneventful stream.
RequestInit ==
  /\ \/ /\ provider = "codex"
        /\ revision = "part_000"
        /\ \/ options \in SelectionOptions /\ environ \in SelectionEnvirons
           \/ options \in PromptOptions /\ environ \in PromptEnvirons
     \/ /\ provider = "claude"
        /\ revision \in Revisions
        /\ options \in ClaudeOptions
        /\ environ = DefaultEnviron
  /\ calls = <<>>
  /\ Fresh
  /\ Idle

RequestNext ==
  \/ CodexStart
  \/ ExitZero
  \/ ClaudeStart
  \/ SdkEnd
  \/ ConsumerNext

RequestSpec == RequestInit /\ [][RequestNext]_vars

(***************************************************************************)
(* Two calls of CodexProvider.executeQuery at once.  Each call is a        *)
(* generator object of its own: its locals are the fields of calls[c];     *)
(* the provider's config and process.env are read by both.                 *)
(***************************************************************************)
\* Number of stdout lines each of the two subprocesses writes at most.
MaxPairLines == 1

Calls == {"first", "second"}

Call(opts) ==
  [options |-> opts, pc |-> "start", proc |-> "none", aborted |-> FALSE,
   lines |-> <<>>, out |-> <<>>, cause |-> NoCause, sent |-> NoSent]

PairOptions ==
  { [DefaultOptions EXCEPT !.prompt = StringPrompt(Str(t))] :
      t \in {"2+2?", "and double it?"} }

PairLines == { l \in Lines : ~l.json \/ l.value.type = "item.started" }

\* A faulty wiring: one cancellation handle serves every call.
SharedAbortController(c) == Calls

\* The calls whose subprocess a call's abortController is passed to.
AbortControllerOf(c) == {c}

PairInit ==
  /\ calls \in [Calls -> { Call(o) : o \in PairOptions }]
  /\ provider = "codex"
  /\ revision = "part_000"
  /\ options = DefaultOptions
  /\ environ \in PromptEnvirons
  /\ Fresh
  /\ Idle

\* The variables of the single call, which stand still here.
single ==
  <<web, thrown, info, provider, revision, options, environ, pc, proc, aborted, silence, lines,
    out, origin, cause, mark, sent>>

\* CodexStart, by call c.
PairStart(c) ==
  /\ calls[c].pc = "start"
  /\ LET s == Prepare(calls[c].options, environ)
     IN calls' = [calls EXCEPT
          ![c].sent = s,
          ![c].out = calls[c].out \o s.early,
          ![c].proc = IF s.spawned THEN "running" ELSE calls[c].proc,
          ![c].pc = IF s.spawned THEN "await" ELSE "final"]
  /\ UNCHANGED single

\* ReadLine, by call c.
PairReadLine(c, line) ==
  /\ calls[c].pc = "await"
  /\ calls[c].proc = "running"
  /\ Len(calls[c].lines) < MaxPairLines
  /\ LET records == ParseLine(line)
         yielded == IF records = <<>> THEN <<>>
                    ELSE Yielded(convertToProviderFormat(records[1]))
     IN calls' = [calls EXCEPT
          ![c].lines = Append(calls[c].lines, line),
          ![c].out = calls[c].out \o yielded,
          ![c].pc = IF yielded = <<>> THEN "await" ELSE "yielded"]
  /\ UNCHANGED single

\* ExitZero, by call c.
PairExitZero(c) ==
  /\ calls[c].pc = "await"
  /\ calls[c].proc = "running"
  /\ calls' = [calls EXCEPT
       ![c].proc = "exited",
       ![c].out = Append(calls[c].out, CompletionMessage),
       ![c].pc = "final"]
  /\ UNCHANGED single

\* ExitNonZero before any terminal record, by call c.
PairExitNonZero(c) ==
  /\ calls[c].pc = "await"
  /\ calls[c].proc = "running"
  /\ calls' = [calls EXCEPT
       ![c].proc = "exited",
       ![c].cause = ExitCause,
       ![c].out = calls[c].out \o CatchMessages(ExitCause),
       ![c].pc = "final"]
  /\ UNCHANGED single

\* RaiseAbort, on the handle of call c.
PairRaiseAbort(c) ==
  /\ calls[c].proc = "running"
  /\ ~calls[c].aborted
  /\ calls' = [d \in Calls |->
       IF d = c
       THEN [calls[d] EXCEPT !.aborted = TRUE, !.proc = "killed"]
       ELSE IF d \in AbortControllerOf(c) /\ calls[d].proc = "running"
       THEN [calls[d] EXCEPT !.proc = "killed"]
       ELSE calls[d]]
  /\ UNCHANGED single

\* AbortEndsStream, by call c: the stream of a killed process ends.
PairAbortEndsStream(c) ==
  /\ calls[c].pc = "await"
  /\ calls[c].proc = "killed"
  /\ calls' = [calls EXCEPT
       ![c].out = Append(calls[c].out, CompletionMessage),
       ![c].pc = "final"]
  /\ UNCHANGED single

\* ConsumerNext, by the consumer of call c.
PairConsumerNext(c) ==
  /\ calls[c].pc \in {"yielded", "final"}
  /\ calls' = [calls EXCEPT
       ![c].pc = IF calls[c].pc = "yielded" THEN "await" ELSE "done"]
  /\ UNCHANGED single

PairNext ==
  \E c \in Calls :
    \/ PairStart(c)
    \/ \E line \in PairLines : PairReadLine(c, line)
    \/ PairExitZero(c)
    \/ PairExitNonZero(c)
    \/ PairRaiseAbort(c)
    \/ PairAbortEndsStream(c)
    \/ PairConsumerNext(c)

PairSpec == PairInit /\ [][PairNext]_vars

(***************************************************************************)
(* classifyError applied to the failures an adapter can catch.             *)
(***************************************************************************)
MessageTokens ==
  {"Authentication failed", "AUTHENTICATION FAILED", "invalid api key",
   "authentication_failed", "Fix external API key", "Boom", "spawn ENOENT"}

\* Error objects with a message, abort errors, and values without a message.
ThrownValues ==
  { Cause(n, msg) : n \in {"Error", "AbortError"},
                    msg \in SeqsUpTo(MessageTokens, MaxTokens) }
    \cup { Cause(n, Undefined) : n \in {"Error", "AbortError"} }

ClassifyInit ==
  /\ thrown \in ThrownValues
  /\ info = NoInfo
  /\ provider = "codex"
  /\ revision = "part_000"
  /\ options = DefaultOptions
  /\ environ = DefaultEnviron
  /\ calls = <<>>
  /\ pc = "start"
  /\ proc = "none"
  /\ aborted = FALSE
  /\ silence = 0
  /\ lines = <<>>
  /\ out = <<>>
  /\ origin = <<>>
  /\ cause = NoCause
  /\ mark = NoMark
  /\ sent = NoSent
  /\ Idle

Classify ==
  /\ info = NoInfo
  /\ info' = ErrorInfo(thrown)
  /\ UNCHANGED <<web, calls, thrown, provider, revision, options, environ, sent,
                 pc, proc, aborted, silence, lines, out, origin, cause, mark>>

ClassifyNext == Classify

ClassifySpec == ClassifyInit /\ [][ClassifyNext]_vars

(***************************************************************************)
(* The HTTP routes, one request at a time.                                 *)
(***************************************************************************)
DiffsRoutes == {"project-diffs", "file-diff", "worktree-diffs"}

\* The bodies a request to a route can carry.
Bodies(r) ==
  LET Body == [NoBody EXCEPT !.present = TRUE]
      ProjectPaths == {Str("/proj"), <<>>, Undefined}
      RepoUrls ==
        { <<"https://github.com/", "acme", "/", "starter.kit">>,
          <<"https://github.com/", "my-org", "/", "starter_1">>,
          <<"https://gitlab.com/", "acme", "/", "starter.kit">>,
          <<"https://github.com/", "acme", "/", "starter.kit", "/", "tree">>,
          <<"https://github.com/", "ac me", "/", "starter.kit">>,
          <<>>, Undefined }
      ProjectNames ==
        { <<"a", "p", "p">>, <<"a", ".", "p">>, <<".", ".", "/", "x">>, <<>>,
          Undefined }
      ParentDirs == {Str("/home/u"), Str("/"), Undefined}
  IN {NoBody} \cup
     CASE r = "project-diffs" ->
            { [Body EXCEPT !.projectPath = p] : p \in ProjectPaths }
       [] r = "file-diff" ->
            { [Body EXCEPT !.projectPath = p, !.filePath = f] :
                p \in ProjectPaths, f \in {Str("src/a.ts"), Undefined} }
       [] r = "worktree-diffs" ->
            { [Body EXCEPT !.projectPath = p, !.featureId = f] :
                p \in ProjectPaths, f \in {Str("feat-1"), Undefined} }
       [] r = "clone" ->
            { [Body EXCEPT !.repoUrl = u, !.projectName = n,
                           !.parentDir = d] :
                u \in RepoUrls, n \in ProjectNames, d \in ParentDirs }

RoutesInit ==
  /\ route \in DiffsRoutes \cup {"clone"}
  /\ body \in Bodies(route)
  /\ hpc = "received"
  /\ frame = NoFrame
  /\ res = <<>>
  /\ spawns = <<>>
  /\ allowedPaths = {}
  /\ provider = "codex"
  /\ revision = "part_000"
  /\ options = DefaultOptions
  /\ environ = DefaultEnviron
  /\ calls = <<>>
  /\ Fresh

\* The variables of the provider calls, which stand still here.
adapters ==
  <<provider, revision, options, environ, pc, proc, aborted, silence, lines,
    out, origin, cause, mark, sent, calls, thrown, info>>

\* if (!projectPath || !featureId), and its like in the other handlers.
MissingParameters ==
  CASE route = "project-diffs" -> ~Truthy(body.projectPath)
    [] route = "file-diff" ->
         ~Truthy(body.projectPath) \/ ~Truthy(body.filePath)
    [] route = "worktree-diffs" ->
         ~Truthy(body.projectPath) \/ ~Truthy(body.featureId)
    [] OTHER ->
         \/ ~Truthy(body.repoUrl)
         \/ ~Truthy(body.projectName)
         \/ ~Truthy(body.parentDir)

MissingParametersMessage ==
  CASE route = "project-diffs" -> Str("projectPath required")
    [] route = "file-diff" -> Str("projectPath and filePath required")
    [] route = "worktree-diffs" -> Str("projectPath and featureId required")
    [] OTHER -> Str("repoUrl, projectName, and parentDir are required")

\* The outer catch, when the destructuring of an undefined req.body throws:
\* res.status(500).json({ success: false, error: getErrorMessage(error) }).
OuterCatch ==
  ErrorResponse(500, Str("Cannot destructure property of undefined"))

\* The synchronous head of a diffs handler: the destructuring of req.body
\* and the check of the parameters.
DiffsReceive ==
  /\ route \in DiffsRoutes
  /\ hpc = "received"
  /\ IF ~body.present
       THEN /\ res' = Append(res, OuterCatch)
            /\ hpc' = "done"
            /\ frame' = frame
       ELSE IF MissingParameters
         THEN /\ res' = Append(res, ErrorResponse(400, MissingParametersMessage))
              /\ hpc' = "done"
              /\ frame' = frame
         ELSE /\ res' = res
              /\ hpc' = CASE route = "project-diffs" -> "isrepo"
                           [] route = "file-diff" -> "filestatus"
                           [] OTHER -> "access"
              /\ frame' = [frame EXCEPT !.target =
                             IF route = "worktree-diffs" THEN "worktree"
                             ELSE "project"]
  /\ UNCHANGED <<adapters, route, body, spawns, allowedPaths>>

\* A git or file-system operation threw inside the handler's inner try: the
\* worktree handler turns to the main project; the fallback, and the project
\* handler, answer with the empty result.
InnerCatch(step) ==
  IF route = "worktree-diffs" /\ frame.target = "worktree"
    THEN /\ frame' = [frame EXCEPT !.target = "project", !.diff = <<>>,
                                   !.failed = Append(frame.failed, step)]
         /\ hpc' = "isrepo"
         /\ res' = res
    ELSE /\ frame' = [frame EXCEPT !.failed = Append(frame.failed, step)]
         /\ hpc' = "done"
         /\ res' = Append(res, IF route = "worktree-diffs"
                                 THEN FallbackFailureResponse
                                 ELSE EmptyDiffsResponse)

\* await fs.access(worktreePath)
AccessWorktree(ok) ==
  /\ route = "worktree-diffs"
  /\ hpc = "access"
  /\ IF ok
       THEN hpc' = "isrepo" /\ UNCHANGED <<frame, res>>
       ELSE InnerCatch("fs.access")
  /\ UNCHANGED <<adapters, route, body, spawns, allowedPaths>>

\* await isGitRepo(path), which answers false when git rev-parse fails; and,
\* when it does, the listing of the directory and the response.
IsGitRepo(isRepo, allFiles) ==
  /\ route \in {"project-diffs", "worktree-diffs"}
  /\ hpc = "isrepo"
  /\ IF isRepo
       THEN hpc' = "gitdiff" /\ UNCHANGED <<frame, res>>
       ELSE LET result == generateDiffsForNonGitDirectory(allFiles)
            IN /\ res' = Append(res, DiffsResponse(result.diff, result.files,
                                                   Len(result.files) > 0))
               /\ hpc' = AfterNonGitResponse
               /\ frame' = frame
  /\ UNCHANGED <<adapters, route, body, spawns, allowedPaths>>

\* await execAsync("git diff HEAD", { cwd })
GitDiff(ok, stdout) ==
  /\ route \in {"project-diffs", "worktree-diffs"}
  /\ hpc = "gitdiff"
  /\ IF ok
       THEN /\ frame' = [frame EXCEPT !.diff = stdout]
            /\ hpc' = "gitstatus"
            /\ res' = res
       ELSE InnerCatch("git diff")
  /\ UNCHANGED <<adapters, route, body, spawns, allowedPaths>>

\* await execAsync("git status --porcelain", { cwd }), the parsing of its
\* output, appendUntrackedFileDiffs, and the response.
GitStatus(ok, statusLines) ==
  /\ route \in {"project-diffs", "worktree-diffs"}
  /\ hpc = "gitstatus"
  /\ IF ok
       THEN LET files == ParseStatus(statusLines)
                combinedDiff == appendUntrackedFileDiffs(frame.diff, files)
            IN /\ res' = Append(res, DiffsResponse(combinedDiff, files,
                                                   Len(files) > 0))
               /\ hpc' = "done"
               /\ frame' = frame
       ELSE InnerCatch("git status")
  /\ UNCHANGED <<adapters, route, body, spawns, allowedPaths>>

RECURSIVE TrimStart(_)
TrimStart(chars) ==
  IF chars # <<>> /\ Head(chars) \in {" ", "\n"} THEN TrimStart(Tail(chars))
  ELSE chars

\* status.trim().startsWith("??")
isUntracked(statusLines) ==
  LET t == TrimStart(JoinLines(statusLines))
  IN Len(t) >= 2 /\ t[1] = "?" /\ t[2] = "?"

\* await execAsync(`git status --porcelain -- "${filePath}"`), and for an
\* untracked file the synthetic diff and the response.
FileStatus(ok, statusLines) ==
  /\ route = "file-diff"
  /\ hpc = "filestatus"
  /\ IF ~ok
       THEN /\ res' = Append(res, FileDiffResponse(<<>>, body.filePath))
            /\ hpc' = "done"
            /\ frame' = [frame EXCEPT
                           !.failed = Append(frame.failed, "git status")]
       ELSE IF isUntracked(statusLines)
         THEN /\ res' = Append(res, FileDiffResponse(
                          generateSyntheticDiffForNewFile(body.filePath),
                          body.filePath))
              /\ hpc' = "done"
              /\ frame' = frame
         ELSE /\ res' = res
              /\ hpc' = "filediff"
              /\ frame' = frame
  /\ UNCHANGED <<adapters, route, body, spawns, allowedPaths>>

\* await execAsync(`git diff HEAD -- "${filePath}"`), and the response.
FileDiff(ok, stdout) ==
  /\ route = "file-diff"
  /\ hpc = "filediff"
  /\ res' = Append(res, FileDiffResponse(IF ok THEN stdout ELSE <<>>,
                                         body.filePath))
  /\ frame' = [frame EXCEPT !.failed =
                 IF ok THEN frame.failed ELSE Append(frame.failed, "git diff")]
  /\ hpc' = "done"
  /\ UNCHANGED <<adapters, route, body, spawns, allowedPaths>>

\* The synchronous head of the clone route: the destructuring and the
\* validation of the fields, of the URL and of the resolved path.
CloneReceive ==
  /\ route = "clone"
  /\ hpc = "received"
  /\ IF ~body.present
       THEN /\ res' = Append(res, OuterCatch)
            /\ hpc' = "done"
            /\ frame' = frame
       ELSE IF MissingParameters
         THEN /\ res' = Append(res, ErrorResponse(400, MissingParametersMessage))
              /\ hpc' = "done"
              /\ frame' = frame
       ELSE IF ~githubUrlPattern(body.repoUrl)
         THEN /\ res' = Append(res, ErrorResponse(400,
                          Str("Invalid GitHub repository URL")))
              /\ hpc' = "done"
              /\ frame' = frame
       ELSE LET name == sanitizedName(body.projectName)
            IN IF IsTraversal(relativePath(name))
                 THEN /\ res' = Append(res, ErrorResponse(400,
                          Str("Invalid project name; potential path traversal attempt.")))
                      /\ hpc' = "done"
                      /\ frame' = frame
                 ELSE /\ res' = res
                      /\ hpc' = "target"
                      /\ frame' = [frame EXCEPT
                           !.sanitizedName = name,
                           !.projectPath = ProjectPath(body.parentDir, name)]
  /\ UNCHANGED <<adapters, route, body, spawns, allowedPaths>>

\* await fs.access(projectPath): the directory must not exist yet.
AccessTarget(exists) ==
  /\ route = "clone"
  /\ hpc = "target"
  /\ frame' = [frame EXCEPT !.targetExists = exists]
  /\ IF exists
       THEN /\ res' = Append(res, ErrorResponse(400,
                        <<"Directory ">> \o frame.sanitizedName
                          \o <<" already exists in ">> \o body.parentDir))
            /\ hpc' = "done"
       ELSE /\ res' = res
            /\ hpc' = "parent"
  /\ UNCHANGED <<adapters, route, body, spawns, allowedPaths>>

\* The parent directory is verified, or created; then git clone is spawned.
EnsureParent(parentExists, created) ==
  /\ route = "clone"
  /\ hpc = "parent"
  /\ LET isRoot == body.parentDir = <<"/">> \/ body.parentDir = <<>>
         ok == IF isRoot THEN parentExists ELSE parentExists \/ created
     IN IF ok
          THEN /\ spawns' = Append(spawns,
                    [command |-> "git",
                     args |-> <<Str("clone"), body.repoUrl,
                                frame.projectPath>>,
                     cwd |-> body.parentDir])
               /\ hpc' = "cloning"
               /\ UNCHANGED <<frame, res>>
          ELSE /\ res' = Append(res, ErrorResponse(500,
                           Str("Failed to access parent directory")))
               /\ hpc' = "done"
               /\ frame' = [frame EXCEPT
                              !.failed = Append(frame.failed, "parentDir")]
               /\ spawns' = spawns
  /\ UNCHANGED <<adapters, route, body, allowedPaths>>

\* gitProcess.on("close", code): a failed clone is answered with 500.
CloneClose(code, stderr) ==
  /\ route = "clone"
  /\ hpc = "cloning"
  /\ frame' = [frame EXCEPT !.code = code]
  /\ IF CloneSucceeded(code)
       THEN hpc' = "rmgit" /\ res' = res
       ELSE /\ res' = Append(res, ErrorResponse(500,
                        CloneFailureMessage(stderr, code)))
            /\ hpc' = "done"
  /\ UNCHANGED <<adapters, route, body, spawns, allowedPaths>>

\* gitProcess.on("error"): git could not be spawned.
CloneError ==
  /\ route = "clone"
  /\ hpc = "cloning"
  /\ frame' = [frame EXCEPT !.failed = Append(frame.failed, "spawn git")]
  /\ res' = Append(res, ErrorResponse(500, Str("Failed to spawn git")))
  /\ hpc' = "done"
  /\ UNCHANGED <<adapters, route, body, spawns, allowedPaths>>

\* await fs.rm(gitDir): a failure is logged and the route continues; then
\* git init is spawned.
RemoveGitDir(ok) ==
  /\ route = "clone"
  /\ hpc = "rmgit"
  /\ frame' = [frame EXCEPT !.failed =
                 IF ok THEN frame.failed ELSE Append(frame.failed, "fs.rm")]
  /\ spawns' = Append(spawns, [command |-> "git", args |-> <<Str("init")>>,
                               cwd |-> frame.projectPath])
  /\ hpc' = "init"
  /\ UNCHANGED <<adapters, route, body, res, allowedPaths>>

\* git init closed, or failed to start: either resolves; addAllowedPath and
\* the response follow.
GitInitSettled(ok) ==
  /\ route = "clone"
  /\ hpc = "init"
  /\ frame' = [frame EXCEPT !.failed =
                 IF ok THEN frame.failed ELSE Append(frame.failed, "git init")]
  /\ allowedPaths' = addAllowedPath(allowedPaths, frame.projectPath)
  /\ res' = Append(res, CloneResponse(frame.projectPath, frame.sanitizedName))
  /\ hpc' = "done"
  /\ UNCHANGED <<adapters, route, body, spawns>>

RoutesNext ==
  \/ DiffsReceive
  \/ \E ok \in BOOLEAN : AccessWorktree(ok)
  \/ \E allFiles \in Listings : IsGitRepo(FALSE, allFiles)
  \/ IsGitRepo(TRUE, <<>>)
  \/ \E ok \in BOOLEAN, stdout \in DiffOutputs : GitDiff(ok, stdout)
  \/ \E ok \in BOOLEAN, statusLines \in StatusOutputs :
       GitStatus(ok, statusLines)
  \/ \E ok \in BOOLEAN, statusLines \in StatusOutputs :
       FileStatus(ok, statusLines)
  \/ \E ok \in BOOLEAN, stdout \in DiffOutputs : FileDiff(ok, stdout)
  \/ CloneReceive
  \/ \E exists \in BOOLEAN : AccessTarget(exists)
  \/ \E parentExists \in BOOLEAN, created \in BOOLEAN :
       EnsureParent(parentExists, created)
  \/ \E code \in {0, 128}, stderr \in {<<>>, Str("fatal: not found")} :
       CloneClose(code, stderr)
  \/ CloneError
  \/ \E ok \in BOOLEAN : RemoveGitDir(ok)
  \/ \E ok \in BOOLEAN : GitInitSettled(ok)

\* Every awaited operation settles: the handler takes its next step.
RoutesSpec == RoutesInit /\ [][RoutesNext]_vars /\ WF_vars(RoutesNext)

(***************************************************************************)
(* Properties.                                                             *)
(***************************************************************************)
Blocks(msg, type) ==
  { msg.content[k] : k \in { n \in 1..Len(msg.content) : msg.content[n].type = type } }

\* The indices of the messages converted from line k.
OutOf(k) == { n \in 1..Len(out) : origin[n] = k }

\* The messages that convert a record, in the order they were yielded.
RECURSIVE FromRecords(_, _)
FromRecords(msgs, from) ==
  IF msgs = <<>> THEN <<>>
  ELSE (IF Head(from) # 0 THEN <<Head(msgs)>> ELSE <<>>)
         \o FromRecords(Tail(msgs), Tail(from))

\* The messages a sequence of parsed records maps to, dropped records
\* contributing nothing.
RECURSIVE Derivable(_)
Derivable(records) ==
  IF records = <<>> THEN <<>>
  ELSE LET m == convertToProviderFormat(Head(records)) IN
       (IF m = Null THEN <<>> ELSE <<m>>) \o Derivable(Tail(records))

RECURSIVE Values(_)
Values(ls) == IF ls = <<>> THEN <<>> ELSE <<Head(ls).value>> \o Values(Tail(ls))

IsJson(line) == line.json
ValidRecords == Values(SelectSeq(lines, IsJson))

IsMappable(line) == line.json /\ convertToProviderFormat(line.value) # Null

\* C1: every tool_result block a Codex call emits carries the tool_use_id of
\* a tool_use block emitted earlier in the same call.
C1_ToolResultMatchesEarlierToolUse ==
  provider = "codex" =>
    \A i \in 1..Len(out) : \A r \in Blocks(out[i], "tool_result") :
      \E j \in 1..(i - 1) : \E u \in Blocks(out[j], "tool_use") :
        u.tool_use_id = r.tool_use_id

IsCommand(line, type) ==
  /\ line.json
  /\ line.value.type = type
  /\ line.value.item.type = "command_execution"

\* C2: a command_execution item.started followed by an item.completed with
\* the same native id yields exactly two assistant messages, the first with a
\* single tool_use block, the second with a single tool_result block, both
\* with the same defined tool_use_id.
C2_CommandPairSharesToolUseId ==
  provider = "codex" =>
    \A i, j \in 1..Len(lines) :
      ( /\ i < j
        /\ IsCommand(lines[i], "item.started")
        /\ IsCommand(lines[j], "item.completed")
        /\ lines[i].value.item.id = lines[j].value.item.id )
      => /\ Cardinality(OutOf(i)) = 1
         /\ Cardinality(OutOf(j)) = 1
         /\ \A a \in OutOf(i) : \A b \in OutOf(j) :
              /\ out[a].type = "assistant" /\ out[b].type = "assistant"
              /\ Len(out[a].content) = 1 /\ Len(out[b].content) = 1
              /\ out[a].content[1].type = "tool_use"
              /\ out[b].content[1].type = "tool_result"
              /\ out[a].content[1].tool_use_id # Undefined
              /\ out[a].content[1].tool_use_id = out[b].content[1].tool_use_id

C4_TerminalMessageIsLast ==
  provider = "codex" =>
    \A i \in 1..Len(out) :
      out[i].type \in {"result", "error"} => i = Len(out)

\* C5: when the subprocess stream has delivered its records and ended
\* normally, the call has emitted as many messages as there are records that
\* map to a message, in the arrival order of their records.
C5_OneMessagePerMappableRecord ==
  (provider = "codex" /\ proc = "exited" /\ cause = NoCause) =>
    /\ Len(out) = Cardinality({ k \in 1..Len(lines) : IsMappable(lines[k]) })
    /\ \A a, b \in 1..Len(out) : a < b => origin[a] < origin[b]

\* C6: once the cancellation handle is raised while a Codex call streams, the
\* process is terminated, no further line is read, at most the completion
\* message follows and no error message is emitted.
C6_CancellationEndsWithoutError ==
  (provider = "codex" /\ aborted) =>
    /\ proc = "killed"
    /\ Len(lines) = mark.abortLines
    /\ Len(out) <= mark.abortOut + 1
    /\ \A i \in (mark.abortOut + 1)..Len(out) : out[i].type # "error"
    /\ cause = NoCause

C6_Witness ==
  /\ provider = "codex" /\ aborted /\ pc = "done"
  /\ mark.abortOut >= 1
  /\ Len(out) = mark.abortOut + 1

\* C7: when the stall timer fires after 30 s without output, the process is
\* killed and the call ends with exactly one error message, of the execution
\* kind; no line is read and nothing is converted after the timeout.
C7_StallTimeoutEndsWithOneError ==
  (provider = "codex" /\ cause = TimeoutCause) =>
    /\ silence >= timeout
    /\ proc = "killed"
    /\ pc \in {"final", "done", "returned"}
    /\ Len(lines) = mark.failLines
    /\ Len(out) = mark.failOut + 1
    /\ out[Len(out)] = ErrorMessage(TimeoutCause.message)
    /\ origin[Len(out)] = 0
    /\ classifyError(cause) = "execution"

C7_Witness ==
  /\ provider = "codex" /\ cause = TimeoutCause /\ pc = "done"
  /\ Len(lines) >= 1 /\ mark.failOut >= 1

\* A step that reads a line that is not JSON.
ReadsMalformedLine ==
  /\ Len(lines') = Len(lines) + 1
  /\ ~lines'[Len(lines')].json

\* C8: the messages converted from the stream are exactly those derivable
\* from its well-formed lines alone, in their order; reading a malformed
\* line yields nothing, raises no failure and leaves the adapter awaiting the
\* next line of the running process.
C8_MalformedLinesAreSkipped ==
  /\ [](provider = "codex" =>
          /\ FromRecords(out, origin) = Derivable(ValidRecords)
          /\ \A n \in 1..Len(out) : origin[n] # 0 => lines[origin[n]].json)
  /\ [][ReadsMalformedLine =>
          /\ out' = out /\ cause' = cause
          /\ pc' = "await" /\ proc' = "running"]_vars

C8_Witness ==
  /\ provider = "codex"
  /\ Len(lines) = 3
  /\ IsMappable(lines[1]) /\ ~lines[2].json /\ IsMappable(lines[3])
  /\ Len(FromRecords(out, origin)) = 2
  /\ pc = "done" /\ cause = NoCause

\* C9: on every exit path of a Codex call (completion, stall timeout,
\* cancellation, the consumer abandoning the iteration) the spawned process
\* is no longer running.
C9_ProcessTerminatedOnEveryExit ==
  (provider = "codex" /\ pc \in {"final", "done", "returned", "threw"}) =>
    proc # "running"

C9_Witness ==
  /\ provider = "codex" /\ pc = "returned" /\ proc = "killed"
  /\ ~aborted /\ cause = NoCause

\* C10: with allowedTools explicitly empty and an API key present the Codex
\* adapter takes the direct SDK path and spawns no subprocess.
C10_EmptyToolsWithKeySpawnsNothing ==
  (provider = "codex" /\ options.allowedTools = <<>>
     /\ Truthy(environ.OPENAI_API_KEY)) =>
    proc = "none"

(***************************************************************************)
(* Properties of the calls' preparation.                                   *)
(***************************************************************************)
\* A configured or an environment API key is available.
KeyAvailable == Truthy(environ.apiKey) \/ Truthy(environ.OPENAI_API_KEY)

\* The strings s occurs in text as a token.
Names(text, s) == \E i \in 1..Len(text) : text[i] = s

\* C11: a Codex call whose allowedTools is unset or non-empty, or whose
\* allowedTools is empty while no API key is available, runs the CLI as a
\* subprocess once its authentication check has passed, whether or not a key
\* is present; nothing is handed to an SDK.
C11_SubprocessPathSelected ==
  (/\ provider = "codex"
   /\ pc # "start"
   /\ options.allowedTools # <<>> \/ ~KeyAvailable
   /\ environ.cliAuthenticated \/ KeyAvailable)
  => /\ sent.spawned
     /\ proc # "none"
     /\ sent.command = findCodexPath(environ)
     /\ sent.payload = NoPayload

\* Tools are requested and an API key is present: the CLI runs.
C11_Witness ==
  /\ provider = "codex"
  /\ options.allowedTools = <<"Read">>
  /\ Truthy(environ.OPENAI_API_KEY)
  /\ proc = "running"
  /\ sent.spawned

\* C12: with no configured key, no environment key and no CLI login, a Codex
\* call yields exactly one message, an error that names OPENAI_API_KEY, and
\* ends without spawning a process.
C12_UnauthenticatedYieldsOneError ==
  (/\ provider = "codex"
   /\ pc # "start"
   /\ ~KeyAvailable
   /\ ~environ.cliAuthenticated)
  => /\ Len(out) = 1
     /\ out[1].type = "error"
     /\ Names(out[1].error, "OPENAI_API_KEY")
     /\ proc = "none"
     /\ ~sent.spawned
     /\ pc \in {"final", "done", "returned"}

C12_Witness ==
  /\ provider = "codex"
  /\ ~KeyAvailable
  /\ ~environ.cliAuthenticated
  /\ pc = "done"
  /\ out = <<NotAuthenticatedMessage>>

\* Neither the config, nor the environment, nor the detection gives a path.
CliNotLocated ==
  /\ ~Truthy(environ.cliPath)
  /\ ~Truthy(environ.CODEX_CLI_PATH)
  /\ ~Truthy(environ.detectionPath)

\* C13: when the Codex CLI cannot be located at all, a Codex call yields
\* exactly one error message and ends without spawning anything.
C13_UnlocatedCliYieldsOneError ==
  (/\ provider = "codex"
   /\ pc # "start"
   /\ CliNotLocated)
  => /\ Len(out) = 1
     /\ out[1].type = "error"
     /\ proc = "none"
     /\ ~sent.spawned

IsUserEntry(entry) == entry.role = "user"
HasAssistantEntry(history) ==
  HasHistory(history) /\ \E i \in 1..Len(history) : history[i].role = "assistant"

\* The user entries of the history as user records, then the prompt.
UserRecordsThenPrompt(history, prompt) ==
  LET users == SelectSeq(history, IsUserEntry)
  IN [i \in 1..Len(users) |->
        SdkReplayMessage("user", <<TextBlock(users[i].content)>>)]
       \o <<SdkReplayMessage("user", normalizeContentBlocks(prompt))>>

\* C14: when the history given to the Claude adapter contains an assistant
\* entry, the records replayed to the SDK are the history's user entries in
\* their order followed by the current prompt as the last user record, and
\* no assistant-typed record is sent.
C14_AssistantHistoryReplaysUsersOnly ==
  (/\ provider = "claude"
   /\ pc # "start"
   /\ HasAssistantEntry(options.conversationHistory))
  => /\ sent.payload.kind = "generator"
     /\ sent.payload.records
          = UserRecordsThenPrompt(options.conversationHistory, options.prompt)
     /\ \A i \in 1..Len(sent.payload.records) :
          sent.payload.records[i].type = "user"

\* The prompt argument of the spawned command: the last one.
PromptArgument == sent.args[Len(sent.args)]

EndsWith(text, suffix) ==
  /\ Len(text) >= Len(suffix)
  /\ SubSeq(text, Len(text) - Len(suffix) + 1, Len(text)) = suffix

\* An entry with its role label, as a transcript shows it.
Rendering(entry) == RoleLabel(entry.role) \o <<": ">> \o entry.content

\* The renderings of entries occur in text in this order, without overlap,
\* between the positions from and last.
RECURSIVE RenderedInOrder(_, _, _, _)
RenderedInOrder(text, entries, from, last) ==
  IF entries = <<>> THEN TRUE
  ELSE LET r == Rendering(Head(entries))
       IN \E k \in from..(last - Len(r) + 1) :
            /\ SubSeq(text, k, k + Len(r) - 1) = r
            /\ RenderedInOrder(text, Tail(entries), k + Len(r), last)

\* C15: with a non-empty history, the text handed to the Codex CLI shows
\* every history entry with its role label, in the history's order, all of
\* them before the new prompt, and it ends with the new prompt's text.
C15_HistoryRenderedBeforePrompt ==
  (/\ provider = "codex"
   /\ sent.spawned
   /\ HasHistory(options.conversationHistory))
  => LET text == PromptArgument
         prompt == PromptText(options.prompt)
     IN /\ EndsWith(text, prompt)
        /\ RenderedInOrder(text, options.conversationHistory, 1,
                           Len(text) - Len(prompt))

C15_Witness ==
  /\ provider = "codex"
  /\ sent.spawned
  /\ options.conversationHistory
       = <<ConversationMessage("user", Str("2+2?")),
           ConversationMessage("assistant", Str("4"))>>
  /\ PromptArgument
       = <<"Previous conversation:\n\n", "User", ": ", "2+2?", "\n\n",
           "Assistant", ": ", "4", "\n\n", "---\n\n", "Current request:\n",
           "and double it?">>

\* C16: with an empty or absent history, the prompt text handed to the Codex
\* CLI is exactly the caller's prompt.
C16_EmptyHistoryPromptVerbatim ==
  (/\ provider = "codex"
   /\ sent.spawned
   /\ ~HasHistory(options.conversationHistory))
  => PromptArgument = PromptText(options.prompt)

\* C16, as the code has it: with an empty or absent history the text handed
\* to the Codex CLI is the caller's prompt text alone when no system prompt
\* is given, and the system prompt, a separator and the prompt text
\* otherwise; nothing of a transcript is added.
C16_EmptyHistoryPromptAfterSystemPrompt ==
  (/\ provider = "codex"
   /\ sent.spawned
   /\ ~HasHistory(options.conversationHistory))
  => LET prompt == IF options.prompt.kind = "string" THEN options.prompt.text
                   ELSE ExtractText(options.prompt.blocks)
     IN PromptArgument =
          IF options.systemPrompt = Undefined THEN prompt
          ELSE options.systemPrompt \o <<"\n\n---\n\n">> \o prompt

C16_Witness ==
  /\ provider = "codex"
  /\ sent.spawned
  /\ options.conversationHistory = <<>>
  /\ options.systemPrompt = Str("Be brief.")
  /\ PromptArgument = <<"Be brief.", "\n\n---\n\n", "and double it?">>

\* The texts of the text blocks of a prompt, in the caller's order.
RECURSIVE TextsInOrder(_)
TextsInOrder(blocks) ==
  IF blocks = <<>> THEN <<>>
  ELSE IF Head(blocks).type = "text"
  THEN <<Head(blocks).text>> \o TextsInOrder(Tail(blocks))
  ELSE TextsInOrder(Tail(blocks))

\* C17: for a multi-part prompt sent to the Codex backend, the prompt text
\* handed to the CLI is the texts of its text blocks in the caller's order,
\* joined by newlines, with nothing for an image block; no error message is
\* yielded because of the images and the CLI is spawned as for a text prompt.
C17_ImageBlocksDropped ==
  (/\ provider = "codex"
   /\ pc # "start"
   /\ options.prompt.kind = "array"
   /\ environ.cliAuthenticated \/ KeyAvailable)
  => /\ sent.spawned
     /\ sent.early = <<>>
     /\ \A i \in 1..Len(out) : out[i].type # "error"
     /\ EndsWith(PromptArgument, JoinLines(TextsInOrder(options.prompt.blocks)))
     /\ (~HasHistory(options.conversationHistory)
           /\ options.systemPrompt = Undefined)
        => PromptArgument = JoinLines(TextsInOrder(options.prompt.blocks))

C17_Witness ==
  /\ provider = "codex"
  /\ sent.spawned
  /\ options.prompt
       = ArrayPrompt(<<TextBlock(Str("look")), ImageBlock, TextBlock(Str("here"))>>)
  /\ PromptArgument = <<"look", "\n", "here">>

\* The same call without the auxiliary server requested.
WithoutMcp == Prepare([options EXCEPT !.mcpServers = FALSE], environ)

Flags == SubSeq(sent.args, 1, Len(sent.args) - 1)
HasFlag(flag) == \E i \in 1..Len(Flags) : Flags[i] = Str(flag)

\* C19: the argument vector of every spawned Codex command starts with the
\* exec subcommand and holds --model followed by the requested model (the
\* default model if none is requested), --json and --full-auto.
C19_ArgumentsAlwaysRequestJsonAndFullAuto ==
  (provider = "codex" /\ sent.spawned)
  => /\ sent.args[1] = Str("exec")
     /\ \E i \in 1..(Len(Flags) - 1) :
          /\ Flags[i] = Str("--model")
          /\ Flags[i + 1] = IF options.model = Undefined THEN Str("gpt-5.2")
                            ELSE options.model
     /\ HasFlag("--json")
     /\ HasFlag("--full-auto")

C19_Witness ==
  /\ provider = "codex"
  /\ proc = "running"
  /\ options.model = Str("gpt-5.1-codex")
  /\ Flags = <<Str("exec"), Str("--model"), Str("gpt-5.1-codex"), Str("--json"),
               Str("--full-auto")>>

\* A record of a type convertToProviderFormat has no arm for.
IsUnrecognised(line) ==
  /\ line.json
  /\ line.value.type \notin
       {"thread.started", "thread.completed", "item.started",
        "item.completed", "turn.started", "error"}

\* The textual payload of a record, Undefined if it has none.
TextualPayload(event) ==
  Or(event.item.text, Or(event.item.content, event.item.aggregated_output))

\* C20: a record of an unrecognised type that carries a textual payload
\* becomes one assistant message with one text block holding that text; one
\* without a textual payload becomes nothing.
C20_UnrecognisedRecordFallsBackToText ==
  \A k \in 1..Len(lines) :
    IsUnrecognised(lines[k])
    => IF Truthy(TextualPayload(lines[k].value))
       THEN \E n \in 1..Len(out) :
              /\ origin[n] = k
              /\ out[n] = AssistantMessage(
                            TextBlock(TextualPayload(lines[k].value)))
       ELSE \A n \in 1..Len(out) : origin[n] # k

(***************************************************************************)
(* Properties of a call's end and of its pace.                             *)
(***************************************************************************)
\* C21: a Codex call whose process exits normally after lines none of which
\* is convertible or a terminal event yields no error message: it yields its
\* completion result and ends.
C21_EmptyStreamIsNoError ==
  (/\ provider = "codex"
   /\ proc = "exited"
   /\ cause = NoCause
   /\ \A k \in 1..Len(lines) :
        ~IsMappable(lines[k]) /\ ~IsTerminalRecord(lines[k]))
  => /\ \A n \in 1..Len(out) : out[n].type # "error"
     /\ out = <<ResultMessage>>
     /\ pc \in {"final", "done", "returned"}

C21_Witness ==
  /\ provider = "codex"
  /\ proc = "exited"
  /\ cause = NoCause
  /\ Len(lines) = 2
  /\ \A k \in 1..Len(lines) :
       ~IsMappable(lines[k]) /\ ~IsTerminalRecord(lines[k])
  /\ pc = "done"
  /\ out = <<ResultMessage>>

\* What call c has yielded, told from its own request and its own lines:
\* the messages of its preparation, the conversions of its parsed records
\* in order, and the message that closes it.
OwnMessages(c) ==
  LET k == calls[c]
      closing == IF k.cause # NoCause THEN <<ErrorMessage(k.cause.message)>>
                 ELSE IF k.sent.spawned /\ k.pc \in {"final", "done"}
                 THEN <<ResultMessage>>
                 ELSE <<>>
  IN (IF k.pc = "start" THEN <<>> ELSE Prepare(k.options, environ).early)
       \o Derivable(Values(SelectSeq(k.lines, IsJson)))
       \o closing

\* C22: two Codex calls that run at once are independent under every
\* interleaving: what each has yielded follows from its own request and its
\* own subprocess's lines, each spawns its own command with its own
\* arguments, a process is killed only by its own call's cancellation, and
\* no step of one call, raising its cancellation handle included, changes
\* the state of the other.
C22_ConcurrentCallsAreIndependent ==
  /\ [](\A c \in Calls :
          /\ calls[c].out = OwnMessages(c)
          /\ calls[c].pc # "start"
               => calls[c].sent = Prepare(calls[c].options, environ)
          /\ calls[c].proc = "killed" => calls[c].aborted)
  /\ [][\A c \in Calls :
          calls'[c] # calls[c]
            => \A d \in Calls \ {c} : calls'[d] = calls[d]]_vars

\* The first call is cancelled and ends; the second, with another prompt,
\* reads a record, converts it and completes.
C22_Witness ==
  /\ calls # <<>>
  /\ calls["first"].aborted
  /\ calls["first"].pc = "done"
  /\ calls["second"].options.prompt # calls["first"].options.prompt
  /\ calls["second"].sent.args # calls["first"].sent.args
  /\ calls["second"].proc = "exited"
  /\ calls["second"].pc = "done"
  /\ Len(calls["second"].out) = 2
  /\ calls["second"].out[1].type = "assistant"

(***************************************************************************)
(* Properties of the classification.                                       *)
(***************************************************************************)
\* The tokens that hold a credential-failure phrase in some spelling.
CredentialFailureTokens ==
  {"Authentication failed", "AUTHENTICATION FAILED", "invalid api key",
   "authentication_failed", "Fix external API key"}

\* C23: classifyError gives every failure exactly one kind: abort when it
\* comes from the raised cancellation handle; otherwise authentication when
\* its message holds a credential-failure phrase in any spelling of case;
\* otherwise execution when it has a message; otherwise unknown.  isAbort
\* and isAuth hold exactly for the kinds abort and authentication.
C23_ClassifyAssignsOneKind ==
  info # NoInfo
  => LET usable == thrown.message # Undefined /\ thrown.message # <<>>
         phrase == usable /\ \E i \in 1..Len(thrown.message) :
                                 thrown.message[i] \in CredentialFailureTokens
     IN /\ info.type \in {"abort", "authentication", "execution", "unknown"}
        /\ info.type = "abort" <=> thrown.name = "AbortError"
        /\ info.type = "authentication"
             <=> (thrown.name # "AbortError" /\ phrase)
        /\ info.type = "execution"
             <=> (thrown.name # "AbortError" /\ usable /\ ~phrase)
        /\ info.type = "unknown" <=> (thrown.name # "AbortError" /\ ~usable)
        /\ info.isAbort <=> info.type = "abort"
        /\ info.isAuth <=> info.type = "authentication"

\* A failure whose message spells the phrase in capitals is classified.
C23_Witness ==
  /\ thrown = Cause("Error", <<"spawn ENOENT", "AUTHENTICATION FAILED">>)
  /\ info.type = "authentication"
  /\ info.isAuth

\* C24: within one call the adapter reads the next record of its backend
\* only after the consumer has taken every message yielded so far: at most
\* one yielded message waits for the consumer, a step reads at most one
\* record, and a record is read or a message yielded only when none waits.
C24_NoReadAheadOfConsumer ==
  /\ [](Len(out) - mark.pulled <= 1)
  /\ [][/\ Len(lines') > Len(lines)
             => mark.pulled = Len(out) /\ Len(lines') = Len(lines) + 1
        /\ Len(out') > Len(out)
             => mark.pulled = Len(out) /\ Len(out') = Len(out) + 1]_vars

\* The second message of a Codex call waits while the first has been taken.
C24_Witness ==
  /\ provider = "codex"
  /\ pc = "yielded"
  /\ Len(lines) = 3
  /\ Len(out) = 2
  /\ mark.pulled = 1

\* C25: the command of a Codex call is the config override if set, else the
\* CODEX_CLI_PATH override if set, else the detected installation path if
\* one is found, else the bare command name codex.
C25_CommandPathPrecedence ==
  (provider = "codex" /\ pc # "start")
  => /\ Truthy(environ.cliPath) => sent.command = environ.cliPath
     /\ (~Truthy(environ.cliPath) /\ Truthy(environ.CODEX_CLI_PATH))
          => sent.command = environ.CODEX_CLI_PATH
     /\ (/\ ~Truthy(environ.cliPath)
         /\ ~Truthy(environ.CODEX_CLI_PATH)
         /\ Truthy(environ.detectionPath))
          => sent.command = environ.detectionPath
     /\ CliNotLocated => sent.command = Str("codex")

\* Both overrides are set and a path is detected: the config override runs.
C25_Witness ==
  /\ provider = "codex"
  /\ proc = "running"
  /\ Truthy(environ.cliPath)
  /\ Truthy(environ.CODEX_CLI_PATH)
  /\ Truthy(environ.detectionPath)
  /\ sent.command = Str("/opt/codex")

\* C26: a Codex call yields the not-authenticated error exactly when
\* detectInstallation, under the same config and environment, reports
\* authenticated false, and whenever it reports that no process is spawned.
C26_AuthErrorAgreesWithDetectInstallation ==
  (provider = "codex" /\ pc # "start")
  => /\ (\E n \in 1..Len(out) : out[n] = NotAuthenticatedMessage)
          <=> ~detectInstallation(environ).authenticated
     /\ ~detectInstallation(environ).authenticated
          => (~sent.spawned /\ proc = "none")

\* C27: the Claude adapter passes the SDK the eight default tools when
\* allowedTools is unset, and exactly the caller's list, the empty list
\* included, when a list is given.
C27_ClaudeDefaultToolsOnlyWhenUnset ==
  (provider = "claude" /\ pc # "start")
  => /\ options.allowedTools = Undefined
          => sent.allowedTools
               = <<"Read", "Write", "Edit", "Glob", "Grep", "Bash",
                   "WebSearch", "WebFetch">>
     /\ options.allowedTools # Undefined
          => sent.allowedTools = options.allowedTools

\* The caller gives the empty list and the SDK receives it.
C27_Witness ==
  /\ provider = "claude"
  /\ pc = "done"
  /\ options.allowedTools = <<>>
  /\ sent.allowedTools = <<>>

(***************************************************************************)
(* Properties of the HTTP routes.                                          *)
(***************************************************************************)
\* The request has run into the worktree handler's fallback, which answered.
FellBack ==
  /\ route = "worktree-diffs"
  /\ frame.target = "project"
  /\ frame.failed # <<>>

\* C28: a request to the project-diffs, the file-diff or the worktree-diffs
\* handler is answered exactly once: no second response is ever sent, the
\* handler has ended exactly when one response has been sent, and it does
\* end, whether parameters are missing, the directory is not a git
\* repository, git succeeds or fails, the worktree falls back to the main
\* project, or the handler throws.
C28_ExactlyOneResponse ==
  /\ [](route \in DiffsRoutes =>
          /\ Len(res) <= 1
          /\ (hpc = "done" <=> Len(res) = 1))
  /\ <>(route \in DiffsRoutes => hpc = "done" /\ Len(res) = 1)

\* The worktree failed, the main project was diffed instead, and the one
\* response carries its files.
C28_Witness ==
  /\ FellBack
  /\ hpc = "done"
  /\ Len(res) = 1
  /\ res[1].files # <<>>

\* The response { success: true, diff: "", files: [], hasChanges: false }.
IsEmptySuccess(r) ==
  /\ r.status = 200
  /\ r.success
  /\ r.diff = <<>>
  /\ r.files = <<>>
  /\ r.hasChanges = FALSE

\* C29: in the worktree-diffs handler a failure of fs.access, of git diff or
\* of git status in the worktree sends no response and turns the handler to
\* the main project path; a failure there as well is answered with success,
\* an empty diff, no files and hasChanges false; no failure of the file
\* system or of git is answered with 500; and every success response has
\* hasChanges true exactly when its file list is not empty.  (isGitRepo
\* answers false when its probe fails, which selects the listing of the
\* directory and is no failure of the handler.)
C29_WorktreeFailureFallsBack ==
  /\ [][ /\ route = "worktree-diffs"
         /\ frame.target = "worktree"
         /\ frame'.failed # frame.failed
         => /\ frame'.target = "project"
            /\ hpc' = "isrepo"
            /\ res' = res ]_vars
  /\ [](route = "worktree-diffs" /\ Len(frame.failed) = 2 =>
          /\ hpc = "done"
          /\ Len(res) = 1
          /\ IsEmptySuccess(res[1]))
  /\ [](route = "worktree-diffs" /\ body.present =>
          \A i \in 1..Len(res) : res[i].status # 500)
  /\ [](route = "worktree-diffs" =>
          \A i \in 1..Len(res) :
            res[i].success => (res[i].hasChanges <=> res[i].files # <<>>))

\* The worktree could not be accessed and git status failed in the main
\* project: the answer is the empty success.
C29_Witness ==
  /\ route = "worktree-diffs"
  /\ frame.failed = <<"fs.access", "git status">>
  /\ Len(res) = 1
  /\ res[1].success

\* The URLs of RepoUrls that name a repository on github.com.
GitHubUrls ==
  { <<"https://github.com/", "acme", "/", "starter.kit">>,
    <<"https://github.com/", "my-org", "/", "starter_1">> }

IsClone(s) == s.command = "git" /\ s.args[1] = Str("clone")

\* No segment of the path below the parent directory climbs out of it.
InsideParent(parentDir, projectPath) ==
  \E name \in SeqsUpTo({"a", "p", "x", "0", "-", "_"}, 4) \ {<<>>} :
    projectPath = ProjectPath(parentDir, name)

\* C30: in the template clone route git clone is spawned only once the
\* request has passed every validation (the three fields are present, the
\* URL is a github.com repository URL, the project path lies inside the
\* parent directory, fs.access found no directory at the project path); the
\* project path is added to the allowed paths only after git clone exited
\* with code 0; and a request that was rejected or failed has added none.
C30_CloneAfterValidationAllowAfterClone ==
  /\ [][ spawns = <<>> /\ spawns' # <<>>
         => /\ IsClone(spawns'[1])
            /\ hpc = "parent"
            /\ Truthy(body.repoUrl)
            /\ Truthy(body.projectName)
            /\ Truthy(body.parentDir)
            /\ body.repoUrl \in GitHubUrls
            /\ InsideParent(body.parentDir, spawns'[1].args[3])
            /\ ~frame.targetExists ]_vars
  /\ [](\A i \in 1..Len(spawns) : i > 1 => ~IsClone(spawns[i]))
  /\ [][ allowedPaths' # allowedPaths
         => /\ spawns # <<>>
            /\ IsClone(spawns[1])
            /\ frame.code = 0
            /\ allowedPaths' = allowedPaths \cup {spawns[1].args[3]} ]_vars
  /\ [](route = "clone" /\ (\E i \in 1..Len(res) : ~res[i].success) =>
          allowedPaths = {})

\* A clone that exited with code 0 and whose project path was allowed.
C30_Witness ==
  /\ route = "clone"
  /\ frame.code = 0
  /\ allowedPaths = {frame.projectPath}
  /\ Len(res) = 1
  /\ res[1].success

====
